---- MODULE Spec2Model ----
(***************************************************************************)
(* UPI-Recon: rollback manager, maker-checker force-match flow, TTUM       *)
(* download lock and the UPI matching passes, modelled from src/backend.   *)
(*                                                                         *)
(* Specifications                                                          *)
(*   Spec      rollback manager + TTUM download, one handler per step,     *)
(*             every I/O step of a handler may raise (input "fail")        *)
(*   SpecFM    maker-checker force-match handlers                          *)
(*   SpecConc  the same handlers split at their file reads and writes,     *)
(*             two workers interleaved                                     *)
(*   SpecUPI   the eight passes and the exception matrix of                *)
(*             perform_upi_reconciliation                                  *)
(***************************************************************************)
EXTENDS Integers, Sequences, FiniteSets, TLC

VARIABLES
    clock,        \* wall clock in whole seconds (datetime.now() at %Y%m%d_%H%M%S)
    history,      \* rollback_history.json: sequence of rollback records
    runFolders,   \* run ids that have a folder under UPLOAD_DIR
    files,        \* files[run]: uploaded file names in UPLOAD_DIR/<run>
    metadata,     \* metadata[run]: UPLOAD_DIR/<run>/metadata.json (<<>> = absent)
    reconOut,     \* reconOut[run]: OUTPUT_DIR/<run>/recon_output.json (<<>> = absent)
    acct,         \* acct[run]: OUTPUT_DIR/<run>/accounting_output.json (<<>> = absent)
    backups,      \* backups[run]: backup files in OUTPUT_DIR/<run>
    ttumDir,      \* ttumDir[run]: OUTPUT_DIR/<run>/ttum exists
    downloaded,   \* downloaded[run]: download_meta.json holds is_downloaded=true
    proposals,    \* proposals[run]: OUTPUT_DIR/<run>_proposals.json
    reconUp,      \* reconUp[run]: recon_output.json under UPLOAD_DIR/<run> (<<>> = absent)
    lastOp,       \* the last force-match request served and its answer
    task,         \* task[w]: the request worker w is serving and where it stands
    tmpFile,      \* tmpFile[run]: OUTPUT_DIR/<run>/recon_output.json.tmp (<<>> = absent)
    served,       \* number of requests the workers have accepted so far
    rows,         \* rows of cbs_df, switch_df and npci_df with their engine columns
    upc,          \* the pass perform_upi_reconciliation runs next
    combined_df,  \* rows load_files_for_recon returns for the run (legacy path)
    results,      \* the run's recon_output.json as the legacy engine wrote it (<<>> = absent)
    vouchers,     \* settlement_engine.vouchers, the vouchers held in memory
    voucher_counter,  \* settlement_engine.voucher_counter
    settlement_file,  \* settlement_<run>.json: the vouchers saved for the run (<<>> = absent)
    lastCall,     \* the last call served on the legacy path
    hanging_state,  \* hanging_state[run]: the 'hanging' list of UPLOAD_DIR/<run>/hanging_state.json (<<>> = absent)
    hanging_csv,    \* hanging_csv[run]: the RRNs of UPLOAD_DIR/<run>/hanging.csv (<<>> = absent)
    flagged,      \* the results dict as generate_report leaves it to its caller (<<>> = none yet)
    RATE_LIMIT,   \* RATE_LIMIT[key]: the timestamps kept for the client key
    rl_log,       \* the requests that reached rate_limiter so far, with their answers
    ttum_in,      \* the recon_results handed to generate_ttum_files
    ttum_out      \* the rows generate_ttum_files emitted (<<>> = not called yet)

rbVars == <<history, runFolders, files, metadata, reconOut, acct,
            backups, ttumDir, downloaded>>

fmVars == <<proposals, reconUp, lastOp>>

concVars == <<task, tmpFile, served>>

upiVars == <<rows, upc>>

legVars == <<combined_df, results, vouchers, voucher_counter, settlement_file, lastCall>>

hangVars == <<hanging_state, hanging_csv, flagged>>

rlVars == <<RATE_LIMIT, rl_log>>

ttumVars == <<ttum_in, ttum_out>>

vars == <<clock, rbVars, fmVars, concVars, upiVars, legVars, hangVars, rlVars, ttumVars>>

notRb == <<fmVars, concVars, upiVars, legVars, hangVars, rlVars, ttumVars>>

notFm == <<rbVars, concVars, upiVars, legVars, hangVars, rlVars, ttumVars>>

(***************************************************************************)
(* Bounds                                                                  *)
(***************************************************************************)
MaxClock == 1
MaxHistory == 2
MaxProposals == 2
MaxRequests == 3
MaxCbsRows == 2
MaxSwitchRows == 1
MaxNpciRows == 2
MaxLegacyRows == 3
MaxVoucherCounter == 3

RunIds == {"R1", "R2"}

\* request.client.host of the callers
ClientKeys == {"10.0.0.1", "10.0.0.2"}
FileNames == {"bad.csv", "gone.csv"}
Cycles == {"1A", "1B"}

Workers == {"w1", "w2"}

Absent == <<>>
Some(x) == <<x>>
NoId == <<>>

(***************************************************************************)
(* RollbackLevel / RollbackStatus (rollback_manager.py:17-30)              *)
(***************************************************************************)
INGESTION == "ingestion"
MID_RECON == "mid_recon"
CYCLE_WISE == "cycle_wise"
ACCOUNTING == "accounting"
RollbackLevel == {INGESTION, MID_RECON, CYCLE_WISE, ACCOUNTING}

PENDING == "pending"
IN_PROGRESS == "in_progress"
COMPLETED == "completed"
FAILED == "failed"
RollbackStatus == {PENDING, IN_PROGRESS, COMPLETED, FAILED}

(***************************************************************************)
(* I/O steps of a rollback handler that may raise.  The input "fail" names *)
(* the step that raises when the handler reaches it ("none": no step).     *)
(***************************************************************************)
IngestionFails == {"none", "log", "inprog", "remove", "metawrite", "completed"}
OutputFails == {"none", "log", "inprog", "read", "backup", "tmp", "replace", "completed"}

(***************************************************************************)
(* _log_rollback, _update_rollback_status                                  *)
(***************************************************************************)
RollbackId(run, now) == <<run, now>>

LogRecord(level, run, now) ==
    [rollback_id |-> RollbackId(run, now), level |-> level, run_id |-> run,
     status |-> PENDING]

_log_rollback(h, level, run, now) == Append(h, LogRecord(level, run, now))

FirstWithId(h, id) ==
    LET hits == {i \in 1..Len(h) : h[i].rollback_id = id}
    IN IF hits = {} THEN 0 ELSE CHOOSE i \in hits : \A j \in hits : i <= j

_update_rollback_status(h, id, status) ==
    LET i == FirstWithId(h, id)
    IN IF i = 0 THEN h ELSE [h EXCEPT ![i].status = status]

get_rollback_history(h, run) ==
    LET OfRun(r) == r.run_id = run IN SelectSeq(h, OfRun)

_validate_run_exists(run) == run \in runFolders

(***************************************************************************)
(* _validate_rollback_allowed (rollback_manager.py:679-709)                *)
(***************************************************************************)
_validate_rollback_allowed(run, level) ==
    LET h == get_rollback_history(history, run)
    IN IF Len(h) > 0 /\ h[Len(h)].status = IN_PROGRESS THEN FALSE
       ELSE IF ~_validate_run_exists(run) THEN FALSE
       ELSE IF level = MID_RECON THEN reconOut[run] # Absent
       ELSE IF level = CYCLE_WISE THEN reconOut[run] # Absent
       ELSE IF level = ACCOUNTING THEN acct[run] # Absent
       ELSE TRUE

(***************************************************************************)
(* History outcome of a handler: record logged PENDING, set IN_PROGRESS    *)
(* inside the try, then COMPLETED; any exception inside the try runs the   *)
(* except clause, which sets FAILED (and may itself raise: failFinal).     *)
(***************************************************************************)
HistoryOutcome(h, level, run, now, inprogOk, success, failFinal) ==
    LET id == RollbackId(run, now)
        h1 == _log_rollback(h, level, run, now)
        h2 == IF inprogOk
              THEN _update_rollback_status(h1, id, IN_PROGRESS) ELSE h1
    IN IF success THEN _update_rollback_status(h2, id, COMPLETED)
       ELSE IF failFinal THEN h2
       ELSE _update_rollback_status(h2, id, FAILED)

(***************************************************************************)
(* Backup step: shutil.copy to a name stamped with the second; a failed    *)
(* copy raises "Cannot proceed without backup" (lines 226-233, 391-398,    *)
(* 547-554).                                                               *)
(***************************************************************************)
BackupEntry(kind, now, recon, ac) ==
    [name |-> <<kind, now>>, recon |-> recon, acct |-> ac]

CopyBackup(bk, kind, now, recon, ac) ==
    {b \in bk : b.name # <<kind, now>>} \cup {BackupEntry(kind, now, recon, ac)}

ProceedsPastBackupMut(copied) == TRUE

ProceedsPastBackup(copied) == copied

(***************************************************************************)
(* mid_recon_rollback: state restoration (lines 235-295)                   *)
(***************************************************************************)
TxnHit(t, x) == t.txn_id = x \/ t.rrn = x

RECURSIVE FoundFor(_, _)
FoundFor(matched, affected) ==
    IF affected = <<>> THEN <<>>
    ELSE LET Hit(t) == TxnHit(t, Head(affected))
         IN SelectSeq(matched, Hit) \o FoundFor(matched, Tail(affected))

WithRollbackMeta(t, id) ==
    [t EXCEPT !.rollback_metadata =
        Some([rollback_id |-> id, previous_status |-> "matched"])]

TagAll(ts, id) == [i \in 1..Len(ts) |-> WithRollbackMeta(ts[i], id)]

\* dict.get(key, default) and dict[key] = value on a loaded JSON object
Get(data, key, default) == IF key \in DOMAIN data THEN data[key] ELSE default

Put(data, key, value) ==
    [k \in DOMAIN data \cup {key} |-> IF k = key THEN value ELSE data[k]]

MidReconApply(data, affected, id) ==
    LET original_matched == Get(data, "matched", <<>>)
        original_unmatched == Get(data, "unmatched", <<>>)
        NotAffected(t) == ~\E i \in 1..Len(affected) : TxnHit(t, affected[i])
        found == FoundFor(original_matched, affected)
        newMatched == IF affected # <<>>
                      THEN SelectSeq(original_matched, NotAffected) ELSE <<>>
        newUnmatched == IF affected # <<>>
                        THEN original_unmatched \o TagAll(found, id)
                        ELSE original_unmatched \o original_matched
        restored == IF affected # <<>> THEN Len(found) ELSE Len(original_matched)
    IN Put(Put(Put(data, "matched", newMatched), "unmatched", newUnmatched),
           "summary", [total_matched |-> Len(newMatched),
                       total_unmatched |-> Len(newUnmatched),
                       last_rollback |-> id, level |-> MID_RECON,
                       transactions_restored |-> restored])

(***************************************************************************)
(* cycle_wise_rollback: state restoration (lines 400-446)                  *)
(***************************************************************************)
valid_cycles == {"1A", "1B", "1C", "2A", "2B", "2C", "3A", "3B", "3C", "4"}

CycleApplyMut(data, cycle_id, id) ==
    LET InCycle(t) == t.cycle_id = cycle_id
        cycle_txns == SelectSeq(data.matched, InCycle)
        restored_unmatched == data.unmatched \o TagAll(cycle_txns, id)
    IN [matched |-> <<>>, unmatched |-> restored_unmatched,
        summary |-> [total_matched |-> 0,
                     total_unmatched |-> Len(restored_unmatched),
                     last_rollback |-> id, level |-> CYCLE_WISE,
                     cycle_id |-> cycle_id,
                     transactions_restored |-> Len(cycle_txns)]]

CycleApply(data, cycle_id, id) ==
    LET InCycle(t) == t.cycle_id = cycle_id
        OffCycle(t) == t.cycle_id # cycle_id
        cycle_txns == SelectSeq(data.matched, InCycle)
        remaining_matched == SelectSeq(data.matched, OffCycle)
        restored_unmatched == data.unmatched \o TagAll(cycle_txns, id)
    IN [matched |-> remaining_matched, unmatched |-> restored_unmatched,
        summary |-> [total_matched |-> Len(remaining_matched),
                     total_unmatched |-> Len(restored_unmatched),
                     last_rollback |-> id, level |-> CYCLE_WISE,
                     cycle_id |-> cycle_id,
                     transactions_restored |-> Len(cycle_txns)]]

(***************************************************************************)
(* accounting_rollback: voucher reset (lines 556-613)                      *)
(***************************************************************************)
ResetVoucherMut(v, id) ==
    [v EXCEPT !.previous_status = v.status,
              !.status = "matched/pending",
              !.rollback_metadata =
                  Some([rollback_id |-> id, previous_gl_entries |-> <<>>]),
              !.gl_entries = <<>>]

ResetVoucher(v, id) ==
    [v EXCEPT !.previous_status = v.status,
              !.status = "matched/pending",
              !.rollback_metadata =
                  Some([rollback_id |-> id, previous_gl_entries |-> v.gl_entries]),
              !.gl_entries = <<>>]

FirstResettable(vs, vid) ==
    LET hits == {i \in 1..Len(vs) :
                    vs[i].voucher_id = vid /\ vs[i].status = "voucher_generated"}
    IN IF hits = {} THEN 0 ELSE CHOOSE i \in hits : \A j \in hits : i <= j

RECURSIVE ResetListed(_, _, _)
ResetListed(st, voucher_ids, id) ==
    IF voucher_ids = <<>> THEN st
    ELSE LET i == FirstResettable(st.vouchers, Head(voucher_ids))
             st1 == IF i = 0
                    THEN [st EXCEPT !.not_found = @ + 1]
                    ELSE [vouchers |-> [st.vouchers EXCEPT ![i] = ResetVoucher(@, id)],
                          reset |-> st.reset + 1, not_found |-> st.not_found]
         IN ResetListed(st1, Tail(voucher_ids), id)

ResetEvery(vs, id) ==
    [vouchers |-> [i \in 1..Len(vs) |->
                      IF vs[i].status = "voucher_generated"
                      THEN ResetVoucher(vs[i], id) ELSE vs[i]],
     reset |-> Cardinality({i \in 1..Len(vs) : vs[i].status = "voucher_generated"}),
     not_found |-> 0]

AccountingApply(data, voucher_ids, id) ==
    LET st == IF voucher_ids # <<>>
              THEN ResetListed([vouchers |-> data.vouchers, reset |-> 0,
                                not_found |-> 0], voucher_ids, id)
              ELSE ResetEvery(data.vouchers, id)
    IN [vouchers |-> st.vouchers,
        accounting_status |-> [status |-> "rolled_back",
                               vouchers_reset |-> st.reset,
                               vouchers_not_found |-> st.not_found,
                               rollback_id |-> id]]

(***************************************************************************)
(* ingestion_rollback: metadata update (lines 123-146)                     *)
(***************************************************************************)
IngestionMeta(meta, failed_filename, id) ==
    LET Keep(f) == f # failed_filename
    IN [uploaded_files |-> SelectSeq(meta.uploaded_files, Keep),
        rollback_history |-> Append(meta.rollback_history,
                                [rollback_id |-> id, removed_file |-> failed_filename])]

(***************************************************************************)
(* Requests and their outcome                                              *)
(***************************************************************************)
outVars == <<files, metadata, reconOut, acct, backups>>

NoEffect(op, run, result) ==
    UNCHANGED <<clock, history, runFolders, ttumDir, downloaded, outVars, notRb>>

(***************************************************************************)
(* ingestion_rollback (rollback_manager.py:88-161)                         *)
(***************************************************************************)
ingestion_rollback(run_id, failed_filename, fail, failFinal) ==
    /\ Len(history) < MaxHistory
    /\ IF fail = "log" THEN NoEffect("ingestion_rollback", run_id, "error")
       ELSE
        LET rollback_id == RollbackId(run_id, clock)
            inprogOk == fail # "inprog"
            fileExists == failed_filename \in files[run_id]
            removed == inprogOk /\ fileExists /\ fail # "remove"
            removeOk == inprogOk /\ (fileExists => fail # "remove")
            metaExists == metadata[run_id] # Absent
            metaWritten == removeOk /\ metaExists /\ fail # "metawrite"
            metaOk == removeOk /\ (metaExists => fail # "metawrite")
            success == metaOk /\ fail # "completed"
        IN /\ files' = IF removed
                       THEN [files EXCEPT ![run_id] = @ \ {failed_filename}]
                       ELSE files
           /\ metadata' = IF metaWritten
                          THEN [metadata EXCEPT ![run_id] =
                                  Some(IngestionMeta(@[1], failed_filename, rollback_id))]
                          ELSE metadata
           /\ history' = HistoryOutcome(history, INGESTION, run_id, clock,
                                        inprogOk, success, failFinal)
           /\ UNCHANGED <<clock, runFolders, reconOut, acct, backups, ttumDir, downloaded, notRb>>

(***************************************************************************)
(* The three handlers that rewrite an output artifact share their I/O      *)
(* skeleton: log, IN_PROGRESS, exists/read, backup copy, temp write,       *)
(* os.replace, COMPLETED.                                                  *)
(***************************************************************************)
OutputSteps(exists, fail) ==
    LET inprogOk == fail # "inprog"
        readOk == inprogOk /\ exists /\ fail # "read"
        copied == readOk /\ fail # "backup"
        proceeds == readOk /\ ProceedsPastBackup(copied)
        tmpOk == proceeds /\ fail # "tmp"
        replaced == tmpOk /\ fail # "replace"
    IN [inprogOk |-> inprogOk, copied |-> copied, replaced |-> replaced,
        success |-> replaced /\ fail # "completed"]

(***************************************************************************)
(* mid_recon_rollback (rollback_manager.py:167-325)                        *)
(***************************************************************************)
mid_recon_rollback(run_id, affected_transactions, confirmation_required, fail, failFinal) ==
    /\ Len(history) < MaxHistory
    /\ IF ~_validate_rollback_allowed(run_id, MID_RECON)
       THEN NoEffect("mid_recon_rollback", run_id, "refused")
       ELSE IF confirmation_required
       THEN NoEffect("mid_recon_rollback", run_id, "confirmation_required")
       ELSE IF fail = "log" THEN NoEffect("mid_recon_rollback", run_id, "error")
       ELSE
        LET rollback_id == RollbackId(run_id, clock)
            st == OutputSteps(reconOut[run_id] # Absent, fail)
        IN /\ backups' = IF st.copied
                         THEN [backups EXCEPT ![run_id] =
                                 CopyBackup(@, "recon_output_backup", clock,
                                            reconOut[run_id], Absent)]
                         ELSE backups
           /\ reconOut' = IF st.replaced
                          THEN [reconOut EXCEPT ![run_id] =
                                  Some(MidReconApply(@[1], affected_transactions, rollback_id))]
                          ELSE reconOut
           /\ history' = HistoryOutcome(history, MID_RECON, run_id, clock,
                                        st.inprogOk, st.success, failFinal)
           /\ UNCHANGED <<clock, runFolders, files, metadata, acct, ttumDir, downloaded, notRb>>

(***************************************************************************)
(* cycle_wise_rollback (rollback_manager.py:331-476)                       *)
(***************************************************************************)
cycle_wise_rollback(run_id, cycle_id, confirmation_required, fail, failFinal) ==
    /\ Len(history) < MaxHistory
    /\ IF ~_validate_rollback_allowed(run_id, CYCLE_WISE)
       THEN NoEffect("cycle_wise_rollback", run_id, "refused")
       ELSE IF cycle_id \notin valid_cycles
       THEN NoEffect("cycle_wise_rollback", run_id, "invalid")
       ELSE IF confirmation_required
       THEN NoEffect("cycle_wise_rollback", run_id, "confirmation_required")
       ELSE IF fail = "log" THEN NoEffect("cycle_wise_rollback", run_id, "error")
       ELSE
        LET rollback_id == RollbackId(run_id, clock)
            st == OutputSteps(reconOut[run_id] # Absent, fail)
        IN /\ backups' = IF st.copied
                         THEN [backups EXCEPT ![run_id] =
                                 CopyBackup(@, "cycle_" \o cycle_id \o "_backup", clock,
                                            reconOut[run_id], Absent)]
                         ELSE backups
           /\ reconOut' = IF st.replaced
                          THEN [reconOut EXCEPT ![run_id] =
                                  Some(CycleApply(@[1], cycle_id, rollback_id))]
                          ELSE reconOut
           /\ history' = HistoryOutcome(history, CYCLE_WISE, run_id, clock,
                                        st.inprogOk, st.success, failFinal)
           /\ UNCHANGED <<clock, runFolders, files, metadata, acct, ttumDir, downloaded, notRb>>

(***************************************************************************)
(* accounting_rollback (rollback_manager.py:482-645)                       *)
(***************************************************************************)
accounting_rollback(run_id, reason, voucher_ids, confirmation_required, fail, failFinal) ==
    /\ Len(history) < MaxHistory
    /\ IF ~_validate_rollback_allowed(run_id, ACCOUNTING)
       THEN NoEffect("accounting_rollback", run_id, "refused")
       ELSE IF reason = ""
       THEN NoEffect("accounting_rollback", run_id, "invalid")
       ELSE IF confirmation_required
       THEN NoEffect("accounting_rollback", run_id, "confirmation_required")
       ELSE IF fail = "log" THEN NoEffect("accounting_rollback", run_id, "error")
       ELSE
        LET rollback_id == RollbackId(run_id, clock)
            st == OutputSteps(acct[run_id] # Absent, fail)
        IN /\ backups' = IF st.copied
                         THEN [backups EXCEPT ![run_id] =
                                 CopyBackup(@, "accounting_backup", clock,
                                            Absent, acct[run_id])]
                         ELSE backups
           /\ acct' = IF st.replaced
                      THEN [acct EXCEPT ![run_id] =
                              Some(AccountingApply(@[1], voucher_ids, rollback_id))]
                      ELSE acct
           /\ history' = HistoryOutcome(history, ACCOUNTING, run_id, clock,
                                        st.inprogOk, st.success, failFinal)
           /\ UNCHANGED <<clock, runFolders, files, metadata, reconOut, ttumDir, downloaded, notRb>>

(***************************************************************************)
(* download_ttum (app.py:1084-1140): serves the ZIP and writes             *)
(* download_meta.json; a failure of that write is swallowed.               *)
(***************************************************************************)
RunOrder(r) == CASE r = "R1" -> 1 [] r = "R2" -> 2

LatestRun(runs) == CHOOSE r \in runs : \A q \in runs : RunOrder(q) <= RunOrder(r)

download_ttum(run_id, metaWriteFails) ==
    IF runFolders = {} THEN NoEffect("download_ttum", run_id, "not_found")
    ELSE LET target == IF run_id # "" THEN run_id ELSE LatestRun(runFolders)
         IN IF ~ttumDir[target] THEN NoEffect("download_ttum", target, "not_found")
            ELSE /\ downloaded' = IF metaWriteFails THEN downloaded
                                  ELSE [downloaded EXCEPT ![target] = TRUE]
                 /\ UNCHANGED <<clock, history, runFolders, ttumDir, outVars, notRb>>

(***************************************************************************)
(* The clock advances between requests                                     *)
(***************************************************************************)
Tick ==
    /\ clock < MaxClock
    /\ clock' = clock + 1
    /\ UNCHANGED <<rbVars, fmVars, concVars, upiVars, legVars, hangVars, rlVars, ttumVars>>

(***************************************************************************)
(* Maker / checker force-match flow (app.py:1355-1625)                     *)
(***************************************************************************)
Users == {"alice", "bob"}

Answer(op, user, proposal_id, result) ==
    [op |-> op, user |-> user, proposal_id |-> proposal_id, result |-> result]

Rec(rrn, status) ==
    [rrn |-> rrn, status |-> status, force_matched |-> FALSE,
     force_match_proposal_id |-> NoId, force_match_approved_by |-> ""]

\* R1: legacy RRN-keyed map; R2: UPI format, one exception row per source
InitReconUp(r) ==
    IF r = "R1"
    THEN [fmt |-> "legacy", recs |-> <<Rec("r1", "ORPHAN"), Rec("r3", "MATCHED")>>]
    ELSE [fmt |-> "upi", recs |-> <<Rec("r1", ""), Rec("r1", "")>>]

FirstIndex(S) == IF S = {} THEN 0 ELSE CHOOSE i \in S : \A j \in S : i <= j

FirstProposal(ps, proposal_id) ==
    FirstIndex({i \in 1..Len(ps) : ps[i].proposal_id = proposal_id})

FirstRec(recs, rrn) == FirstIndex({i \in 1..Len(recs) : recs[i].rrn = rrn})

\* propose_force_match: the RRN must occur in the run's recon_output.json
RrnFound(ro, rrn) == ro # Absent /\ FirstRec(ro[1].recs, rrn) # 0

\* approve_force_match line 1547: the guard that rejects the request
MakerIsCheckerMut(checker, maker) == FALSE

MakerIsChecker(checker, maker) == checker = maker

ForceMatched(rec, proposal_id, checker) ==
    [rec EXCEPT !.status = "FORCE_MATCHED", !.force_matched = TRUE,
                !.force_match_proposal_id = proposal_id,
                !.force_match_approved_by = checker]

\* lines 1564-1609: both formats update the first record of the RRN
ApplyForceMatch(ro, rrn, proposal_id, checker) ==
    LET i == FirstRec(ro.recs, rrn)
    IN IF i = 0 THEN ro
       ELSE [ro EXCEPT !.recs[i] = ForceMatched(@, proposal_id, checker)]

RECURSIVE SumLen(_, _)
SumLen(f, S) ==
    IF S = {} THEN 0
    ELSE LET x == CHOOSE y \in S : TRUE IN Len(f[x]) + SumLen(f, S \ {x})

ProposalCount == SumLen(proposals, RunIds)

FmNoEffect(op, user, proposal_id, result) ==
    /\ lastOp' = Answer(op, user, proposal_id, result)
    /\ UNCHANGED <<clock, proposals, reconUp, notFm>>

propose_force_match(user, rrn, action, run_id, saveFails) ==
    IF rrn = "" \/ action = "" THEN FmNoEffect("propose", user, NoId, "bad_request")
    ELSE IF run_id = "" THEN FmNoEffect("propose", user, NoId, "bad_request")
    ELSE IF ~RrnFound(reconUp[run_id], rrn)
    THEN FmNoEffect("propose", user, NoId, "not_found")
    ELSE
        LET prop_id == <<clock, Len(proposals[run_id]) + 1>>
            proposal == [proposal_id |-> prop_id, rrn |-> rrn, action |-> action,
                         run_id |-> run_id, maker |-> user, status |-> "proposed",
                         checker |-> "", approved_at |-> -1]
        IN /\ ProposalCount < MaxProposals
           /\ proposals' = IF saveFails THEN proposals
                           ELSE [proposals EXCEPT ![run_id] = Append(@, proposal)]
           /\ lastOp' = Answer("propose", user, prop_id, "proposed")
           /\ UNCHANGED <<clock, reconUp, notFm>>

approve_force_match(user, proposal_id, found_run, saveFails, reconWriteFails) ==
    IF proposal_id = NoId THEN FmNoEffect("approve", user, proposal_id, "bad_request")
    ELSE IF \A r \in RunIds : FirstProposal(proposals[r], proposal_id) = 0
    THEN FmNoEffect("approve", user, proposal_id, "not_found")
    ELSE
        \* os.listdir order decides which run's file is scanned first
        /\ FirstProposal(proposals[found_run], proposal_id) # 0
        /\ LET i == FirstProposal(proposals[found_run], proposal_id)
               found == proposals[found_run][i]
               approved == [found EXCEPT !.status = "approved", !.checker = user,
                                         !.approved_at = clock]
               ro == reconUp[found.run_id]
           IN IF MakerIsChecker(user, found.maker)
              THEN FmNoEffect("approve", user, proposal_id, "rejected")
              ELSE /\ proposals' = IF saveFails THEN proposals
                                   ELSE [proposals EXCEPT ![found.run_id][i] = approved]
                   /\ reconUp' = IF ro = Absent \/ reconWriteFails THEN reconUp
                                 ELSE [reconUp EXCEPT ![found.run_id] =
                                         Some(ApplyForceMatch(ro[1], found.rrn,
                                                              proposal_id, user))]
                   /\ lastOp' = Answer("approve", user, proposal_id, "approved")
                   /\ UNCHANGED <<clock, notFm>>

(***************************************************************************)
(* Initial run store: R1 is a reconciled run with vouchers and TTUM files, *)
(* R2 is a run id without an upload folder.                                *)
(***************************************************************************)
Txn(txn_id, rrn, cycle_id) ==
    [txn_id |-> txn_id, rrn |-> rrn, cycle_id |-> cycle_id, rollback_metadata |-> Absent]

InitRecon ==
    [matched |-> <<Txn("T1", "r1", "1A"), Txn("T2", "r2", "1B"), Txn("T4", "r4", "1B")>>,
     unmatched |-> <<Txn("T3", "r3", "1A")>>,
     summary |-> [total_matched |-> 3, total_unmatched |-> 1, last_rollback |-> NoId,
                  level |-> "", transactions_restored |-> 0]]

Voucher(voucher_id, status, gl_entries) ==
    [voucher_id |-> voucher_id, status |-> status, gl_entries |-> gl_entries,
     previous_status |-> "", rollback_metadata |-> Absent]

InitAcct ==
    [vouchers |-> <<Voucher("V1", "voucher_generated", <<"DR", "CR">>),
                    Voucher("V2", "posted", <<"DR", "CR">>),
                    Voucher("V3", "voucher_generated", <<"DR", "CR">>)>>,
     accounting_status |-> [status |-> "generated", vouchers_reset |-> 0,
                            vouchers_not_found |-> 0, rollback_id |-> NoId]]

InitMeta == [uploaded_files |-> <<"cbs.csv", "bad.csv">>, rollback_history |-> <<>>]

AffectedChoices == {<<>>, <<"T1">>, <<"T1", "T1">>, <<"T1", "r1">>}
VoucherIdChoices == {<<>>, <<"V1">>}
CycleChoices == {"1A", "1B", "9Z"}
Reasons == {"", "CBS upload failure"}

\* <<step that raises, whether the except clause's FAILED update raises too>>
Failures(steps) == (steps \X {FALSE}) \cup {<<"completed", TRUE>>}

InitRunStore ==
    /\ history = <<>>
    /\ runFolders = {"R1"}
    /\ files = [r \in RunIds |-> IF r = "R1" THEN {"cbs.csv", "bad.csv"} ELSE {}]
    /\ metadata = [r \in RunIds |-> IF r = "R1" THEN Some(InitMeta) ELSE Absent]
    /\ reconOut = [r \in RunIds |-> IF r = "R1" THEN Some(InitRecon) ELSE Absent]
    /\ acct = [r \in RunIds |-> IF r = "R1" THEN Some(InitAcct) ELSE Absent]
    /\ backups = [r \in RunIds |-> {}]
    /\ ttumDir = [r \in RunIds |-> r = "R1"]
    /\ downloaded = [r \in RunIds |-> FALSE]

InitForceMatch ==
    /\ proposals = [r \in RunIds |-> <<>>]
    /\ reconUp = [r \in RunIds |-> Some(InitReconUp(r))]
    /\ lastOp = Answer("init", "", NoId, "")

IdleTask ==
    [op |-> "idle", pc |-> "idle", run |-> "", user |-> "", arg |-> <<>>,
     id |-> NoId, loaded |-> <<>>, data |-> Absent]

InitWorkers ==
    /\ task = [w \in Workers |-> IdleTask]
    /\ tmpFile = [r \in RunIds |-> Absent]
    /\ served = 0

InitEngine ==
    /\ rows = [cbs |-> <<>>, switch |-> <<>>, npci |-> <<>>]
    /\ upc = "idle"

\* ReconciliationEngine.__init__ / SettlementEngine.__init__ (no vouchers,
\* counter 1) before any file is loaded
InitSettlement ==
    /\ results = Absent
    /\ vouchers = <<>>
    /\ voucher_counter = 1
    /\ settlement_file = Absent
    /\ lastCall = "init"

\* no report has been generated: no run has a hanging_state.json or hanging.csv
InitHanging ==
    /\ hanging_state = [r \in RunIds |-> Absent]
    /\ hanging_csv = [r \in RunIds |-> Absent]
    /\ flagged = Absent

\* RATE_LIMIT = {} at import (app.py:115): no key has a timestamp
InitRateLimit ==
    /\ RATE_LIMIT = [key \in ClientKeys |-> <<>>]
    /\ rl_log = <<>>

\* generate_ttum_files has not been called
InitTtum ==
    /\ ttum_in = <<>>
    /\ ttum_out = Absent

InitLegacy ==
    /\ combined_df = <<>>
    /\ InitSettlement
    /\ InitHanging
    /\ InitRateLimit
    /\ InitTtum

Init ==
    /\ clock = 0
    /\ InitRunStore
    /\ InitForceMatch
    /\ InitWorkers
    /\ InitEngine
    /\ InitLegacy

IngestionRollback ==
    \E run_id \in RunIds, f \in FileNames, fl \in Failures(IngestionFails) :
        ingestion_rollback(run_id, f, fl[1], fl[2])

MidReconRollback ==
    \E run_id \in RunIds :
        \/ mid_recon_rollback(run_id, <<>>, TRUE, "none", FALSE)
        \/ \E affected \in AffectedChoices, fl \in Failures(OutputFails) :
              mid_recon_rollback(run_id, affected, FALSE, fl[1], fl[2])

CycleWiseRollback ==
    \E run_id \in RunIds :
        \/ cycle_wise_rollback(run_id, "1A", TRUE, "none", FALSE)
        \/ \E cycle_id \in CycleChoices, fl \in Failures(OutputFails) :
              cycle_wise_rollback(run_id, cycle_id, FALSE, fl[1], fl[2])

AccountingRollback ==
    \E run_id \in RunIds :
        \/ accounting_rollback(run_id, "CBS upload failure", <<>>, TRUE, "none", FALSE)
        \/ \E reason \in Reasons, voucher_ids \in VoucherIdChoices,
              fl \in Failures(OutputFails) :
              accounting_rollback(run_id, reason, voucher_ids, FALSE, fl[1], fl[2])

DownloadTtum ==
    \E run_id \in RunIds \cup {""}, metaWriteFails \in BOOLEAN :
        download_ttum(run_id, metaWriteFails)

Next ==
    \/ IngestionRollback
    \/ MidReconRollback
    \/ CycleWiseRollback
    \/ AccountingRollback
    \/ DownloadTtum
    \/ Tick

Spec == Init /\ [][Next]_vars

(***************************************************************************)
(* Vocabulary of the rollback claims                                       *)
(***************************************************************************)
ArtifactsOf(r) == <<files[r], metadata[r], reconOut[r], acct[r]>>

ArtifactsKept(r) ==
    /\ files'[r] = files[r]
    /\ metadata'[r] = metadata[r]
    /\ reconOut'[r] = reconOut[r]
    /\ acct'[r] = acct[r]

Logged == Len(history') = Len(history) + 1

NewRecord == history'[Len(history')]

HasInProgress(h, r) ==
    \E i \in 1..Len(h) : h[i].run_id = r /\ h[i].status = IN_PROGRESS

BecomesCompleted(i) ==
    /\ history'[i].status = COMPLETED
    /\ i <= Len(history) => history[i].status # COMPLETED

\* the state change of a rollback of rec's level is visible in the artifacts
Applied(rec, fs, meta, recon, ac) ==
    CASE rec.level = INGESTION ->
            /\ fs \cap FileNames = {}
            /\ meta # Absent =>
                  \E k \in 1..Len(meta[1].rollback_history) :
                      meta[1].rollback_history[k].rollback_id = rec.rollback_id
      [] rec.level \in {MID_RECON, CYCLE_WISE} ->
            recon # Absent /\ recon[1].summary.last_rollback = rec.rollback_id
      [] rec.level = ACCOUNTING ->
            ac # Absent /\ ac[1].accounting_status.rollback_id = rec.rollback_id

\* C2: once download_meta.json records is_downloaded=true for a run, every
\* later accounting rollback of that run is refused: it logs no accounting
\* record and leaves accounting_output.json (and so every voucher) unchanged.
C2_DownloadLock ==
    [][\A r \in RunIds :
          downloaded[r] =>
              /\ acct'[r] = acct[r]
              /\ ~(Logged /\ NewRecord.run_id = r /\ NewRecord.level = ACCOUNTING)]_vars

\* C3: every rollback that logs a record ends either with the state change
\* applied and the record COMPLETED, or with the run's artifacts exactly as
\* before and the record FAILED.
C3_AllOrNothing ==
    [][Logged =>
          LET rec == NewRecord
              r == rec.run_id
          IN \/ /\ rec.status = COMPLETED
                /\ Applied(rec, files'[r], metadata'[r], reconOut'[r], acct'[r])
             \/ /\ rec.status = FAILED
                /\ ArtifactsKept(r)]_vars

\* C4 as stated: whenever a rollback record of any level (ingestion
\* included) becomes COMPLETED, a backup copy of the artifact as it was
\* before the mutation exists.
PriorBackupExists(level, r) ==
    CASE level = INGESTION ->
            \E b \in backups'[r] : b.name[1] = "upload_backup"
      [] level \in {MID_RECON, CYCLE_WISE} ->
            \E b \in backups'[r] : b.recon = reconOut[r] /\ b.recon # Absent
      [] level = ACCOUNTING ->
            \E b \in backups'[r] : b.acct = acct[r] /\ b.acct # Absent

C5_RefusedWhileInProgress ==
    [][\A r \in RunIds :
          HasInProgress(history, r) =>
              /\ ~(Logged /\ NewRecord.run_id = r)
              /\ ArtifactsKept(r)
              /\ backups'[r] = backups[r]]_vars

\* C6: a completed or failed record never changes status again, and the
\* record a rollback logged is completed or failed when the rollback ends.
C6_StatusLifecycle ==
    [][/\ \A i \in 1..Len(history) :
            history[i].status \in {COMPLETED, FAILED} =>
                history'[i].status = history[i].status
       /\ Logged => NewRecord.status \in {COMPLETED, FAILED}]_vars

(***************************************************************************)
(* Force-match requests                                                    *)
(***************************************************************************)
ProposalIds == (0..MaxClock) \X (1..MaxProposals)

ProposeForceMatch ==
    \E user \in Users :
        \/ propose_force_match(user, "", "match", "R1", FALSE)
        \/ propose_force_match(user, "r1", "", "R1", FALSE)
        \/ propose_force_match(user, "r1", "match", "", FALSE)
        \/ \E rrn \in {"r1", "r9"}, run_id \in RunIds, saveFails \in BOOLEAN :
              propose_force_match(user, rrn, "match", run_id, saveFails)

ApproveForceMatch ==
    \E user \in Users :
        \/ approve_force_match(user, NoId, "R1", FALSE, FALSE)
        \/ \E proposal_id \in ProposalIds, found_run \in RunIds,
              saveFails \in BOOLEAN, reconWriteFails \in BOOLEAN :
              approve_force_match(user, proposal_id, found_run, saveFails, reconWriteFails)

NextFM ==
    \/ ProposeForceMatch
    \/ ApproveForceMatch
    \/ Tick

SpecFM == Init /\ [][NextFM]_vars

\* C1: no proposal is 'approved' with checker equal to maker, and an
\* approve request by the user who made the proposal is rejected and leaves
\* the proposals and the run's reconciliation output unchanged.
OnlyMadeBy(proposal_id, user) ==
    /\ \E r \in RunIds : FirstProposal(proposals[r], proposal_id) # 0
    /\ \A r \in RunIds : \A i \in 1..Len(proposals[r]) :
          proposals[r][i].proposal_id = proposal_id => proposals[r][i].maker = user

C1_MakerChecker ==
    /\ [](\A r \in RunIds : \A i \in 1..Len(proposals[r]) :
            proposals[r][i].status = "approved" =>
                proposals[r][i].checker # proposals[r][i].maker)
    /\ []((lastOp.op = "approve" /\ OnlyMadeBy(lastOp.proposal_id, lastOp.user)) =>
            lastOp.result = "rejected")
    /\ [][(lastOp'.op = "approve" /\ lastOp'.result = "rejected") =>
            UNCHANGED <<proposals, reconUp>>]_vars

\* witness of C1: the maker's own approve request was just rejected while
\* another proposal stands approved by the other user
C1_Witness ==
    /\ lastOp.op = "approve" /\ lastOp.result = "rejected"
    /\ OnlyMadeBy(lastOp.proposal_id, lastOp.user)
    /\ \E r \in RunIds : \E i \in 1..Len(proposals[r]) :
          proposals[r][i].status = "approved"

(***************************************************************************)
(* Interleaved requests.  No handler takes a lock (there is none in        *)
(* rollback_manager.py or app.py), so two workers serving requests are     *)
(* interleaved at every file read and write.  A file opened with           *)
(* open(path, 'w') is truncated at once and filled by json.dump afterwards:*)
(* between the two a reader finds the partial content Torn.                *)
(***************************************************************************)
Torn == <<"partial", "content">>

Goto(w, pc) == [task EXCEPT ![w].pc = pc]

Finish(w) == [task EXCEPT ![w] = IdleTask]

concOther == <<runFolders, files, metadata, acct, ttumDir, downloaded, lastOp, upiVars, legVars,
              hangVars, rlVars, ttumVars>>

Accept == served < MaxRequests /\ served' = served + 1

\* mid_recon_rollback lines 184-199: precondition check, then the handler runs
ConcMidRecon(w, run_id, affected_transactions) ==
    /\ task[w].pc = "idle"
    /\ Accept
    /\ Len(history) < MaxHistory
    /\ _validate_rollback_allowed(run_id, MID_RECON)
    /\ task' = [task EXCEPT ![w] = [IdleTask EXCEPT !.op = "mid_recon", !.pc = "log",
                                       !.run = run_id, !.arg = affected_transactions]]
    /\ UNCHANGED <<clock, history, reconOut, backups, proposals, reconUp, tmpFile, concOther>>

\* _log_rollback lines 51-62: the id is stamped, the history file is loaded
ConcLogRead(w) ==
    /\ task[w].pc = "log"
    /\ Len(history) < MaxHistory
    /\ task' = [task EXCEPT ![w].pc = "log_w", ![w].loaded = history,
                            ![w].id = RollbackId(task[w].run, clock)]
    /\ UNCHANGED <<clock, history, reconOut, backups, proposals, reconUp, tmpFile, served, concOther>>

\* _log_rollback lines 63-66: the loaded list plus the new record is written
ConcLogWrite(w) ==
    /\ task[w].pc = "log_w"
    /\ history' = _log_rollback(task[w].loaded, MID_RECON, task[w].run, task[w].id[2])
    /\ task' = [task EXCEPT ![w].pc = "in_progress", ![w].loaded = <<>>]
    /\ UNCHANGED <<clock, reconOut, backups, proposals, reconUp, tmpFile, served, concOther>>

StatusPcs == {IN_PROGRESS, COMPLETED, FAILED}

WritePc(status) ==
    CASE status = IN_PROGRESS -> "in_progress_w"
      [] status = COMPLETED -> "completed_w"
      [] status = FAILED -> "failed_w"

WritePcs == {WritePc(s) : s \in StatusPcs}

StatusOf(pc) == CHOOSE s \in StatusPcs : WritePc(s) = pc

\* _update_rollback_status lines 72-73: the history file is loaded
ConcStatusRead(w) ==
    /\ task[w].pc \in StatusPcs
    /\ task' = [task EXCEPT ![w].pc = WritePc(task[w].pc), ![w].loaded = history]
    /\ UNCHANGED <<clock, history, reconOut, backups, proposals, reconUp, tmpFile, served, concOther>>

\* _update_rollback_status lines 75-82: the loaded list is written back
ConcStatusWrite(w) ==
    /\ task[w].pc \in WritePcs
    /\ history' = _update_rollback_status(task[w].loaded, task[w].id, StatusOf(task[w].pc))
    /\ task' = IF StatusOf(task[w].pc) = IN_PROGRESS
               THEN [task EXCEPT ![w].pc = "read", ![w].loaded = <<>>]
               ELSE Finish(w)
    /\ UNCHANGED <<clock, reconOut, backups, proposals, reconUp, tmpFile, served, concOther>>

\* lines 220-224: recon_output.json is loaded; a missing or partial file raises
ConcReadRecon(w) ==
    /\ task[w].pc = "read"
    /\ task' = IF reconOut[task[w].run] = Absent THEN Goto(w, FAILED)
               ELSE IF reconOut[task[w].run] = Torn
               THEN Goto(w, FAILED)
               ELSE [task EXCEPT ![w].pc = "backup", ![w].data = reconOut[task[w].run]]
    /\ UNCHANGED <<clock, history, reconOut, backups, proposals, reconUp, tmpFile, served, concOther>>

\* lines 226-233: shutil.copy of the file as it is on disk now
ConcBackup(w) ==
    /\ task[w].pc = "backup"
    /\ IF reconOut[task[w].run] = Absent
       THEN task' = Goto(w, FAILED) /\ UNCHANGED backups
       ELSE /\ backups' = [backups EXCEPT ![task[w].run] =
                             CopyBackup(@, "recon_output_backup", clock,
                                        reconOut[task[w].run], Absent)]
            /\ task' = Goto(w, "tmp")
    /\ UNCHANGED <<clock, history, reconOut, proposals, reconUp, tmpFile, served, concOther>>

\* lines 235-303: the restored state is computed from the loaded data and
\* written to recon_output.json.tmp
ConcTmpWrite(w) ==
    /\ task[w].pc = "tmp"
    /\ tmpFile' = [tmpFile EXCEPT ![task[w].run] =
                      Some(MidReconApply(task[w].data[1], task[w].arg, task[w].id))]
    /\ task' = [task EXCEPT ![w].pc = "replace"]
    /\ UNCHANGED <<clock, history, reconOut, backups, proposals, reconUp, served, concOther>>

\* line 304: os.replace(temp_path, recon_output_path); raises when the
\* temporary file is gone
ConcReplace(w) ==
    /\ task[w].pc = "replace"
    /\ IF tmpFile[task[w].run] = Absent
       THEN task' = Goto(w, FAILED) /\ UNCHANGED <<reconOut, tmpFile>>
       ELSE /\ reconOut' = [reconOut EXCEPT ![task[w].run] = tmpFile[task[w].run]]
            /\ tmpFile' = [tmpFile EXCEPT ![task[w].run] = Absent]
            /\ task' = Goto(w, COMPLETED)
    /\ UNCHANGED <<clock, history, backups, proposals, reconUp, served, concOther>>

\* propose_force_match lines 1451-1478: request checks and the RRN lookup in
\* the run's recon_output.json (json.load of a partial file raises: 500)
ConcPropose(w, user, rrn, run_id) ==
    /\ task[w].pc = "idle"
    /\ Accept
    /\ reconUp[run_id] # Absent
    /\ IF reconUp[run_id] = Torn THEN task' = Finish(w)
       ELSE /\ RrnFound(reconUp[run_id], rrn)
            /\ task' = [task EXCEPT ![w] = [IdleTask EXCEPT !.op = "propose", !.pc = "load",
                                               !.run = run_id, !.user = user,
                                               !.arg = <<rrn>>]]
    /\ UNCHANGED <<clock, history, reconOut, backups, proposals, reconUp, tmpFile, concOther>>

\* lines 1480-1481: _load_proposals and the id built from the loaded length
ConcLoadProposals(w) ==
    /\ task[w].pc = "load"
    /\ ProposalCount < MaxProposals
    /\ task' = [task EXCEPT ![w].pc = "save", ![w].loaded = proposals[task[w].run],
                            ![w].id = <<clock, Len(proposals[task[w].run]) + 1>>]
    /\ UNCHANGED <<clock, history, reconOut, backups, proposals, reconUp, tmpFile, served, concOther>>

NewProposal(t) ==
    [proposal_id |-> t.id, rrn |-> t.arg[1], action |-> "match", run_id |-> t.run,
     maker |-> t.user, status |-> "proposed", checker |-> "", approved_at |-> -1]

\* approve_force_match lines 1526-1548: scan for the proposal, maker check
ConcApprove(w, user, proposal_id, found_run) ==
    /\ task[w].pc = "idle"
    /\ Accept
    /\ FirstProposal(proposals[found_run], proposal_id) # 0
    /\ LET found == proposals[found_run][FirstProposal(proposals[found_run], proposal_id)]
       IN /\ ~MakerIsChecker(user, found.maker)
          /\ task' = [task EXCEPT ![w] =
                        [IdleTask EXCEPT !.op = "approve", !.pc = "reload",
                            !.run = found.run_id, !.user = user, !.id = proposal_id,
                            !.arg = <<[found EXCEPT !.status = "approved",
                                                    !.checker = user,
                                                    !.approved_at = clock]>>]]
    /\ UNCHANGED <<clock, history, reconOut, backups, proposals, reconUp, tmpFile, concOther>>

\* line 1557: proposals = _load_proposals(found.get('run_id'))
ConcReloadProposals(w) ==
    /\ task[w].pc = "reload"
    /\ task' = [task EXCEPT ![w].pc = "save", ![w].loaded = proposals[task[w].run]]
    /\ UNCHANGED <<clock, history, reconOut, backups, proposals, reconUp, tmpFile, served, concOther>>

\* _save_proposals (lines 1372-1379) of the list the handler holds
ConcSaveProposals(w) ==
    /\ task[w].pc = "save"
    /\ LET t == task[w]
           i == FirstProposal(t.loaded, t.id)
       IN IF t.op = "propose"
          THEN /\ proposals' = [proposals EXCEPT ![t.run] = Append(t.loaded, NewProposal(t))]
               /\ task' = Finish(w)
          ELSE /\ proposals' = [proposals EXCEPT ![t.run] =
                                  IF i = 0 THEN t.loaded
                                  ELSE [t.loaded EXCEPT ![i] = t.arg[1]]]
               /\ task' = [task EXCEPT ![w].pc = "read_up", ![w].loaded = <<>>]
    /\ UNCHANGED <<clock, history, reconOut, backups, reconUp, tmpFile, served, concOther>>

\* lines 1573-1575: recon_output.json of the run is loaded; any exception
\* is swallowed (line 1610)
ConcReadUp(w) ==
    /\ task[w].pc = "read_up"
    /\ task' = IF reconUp[task[w].run] = Absent THEN Finish(w)
               ELSE IF reconUp[task[w].run] = Torn THEN Finish(w)
               ELSE [task EXCEPT ![w].pc = "open_up", ![w].data = reconUp[task[w].run]]
    /\ UNCHANGED <<clock, history, reconOut, backups, proposals, reconUp, tmpFile, served, concOther>>

\* line 1608: open(recon_path, 'w') truncates the file in place
ConcOpenUp(w) ==
    /\ task[w].pc = "open_up"
    /\ reconUp' = [reconUp EXCEPT ![task[w].run] = Torn]
    /\ task' = Goto(w, "dump_up")
    /\ UNCHANGED <<clock, history, reconOut, backups, proposals, tmpFile, served, concOther>>

\* line 1609: json.dump(ro, wf)
ConcDumpUp(w) ==
    /\ task[w].pc = "dump_up"
    /\ reconUp' = [reconUp EXCEPT ![task[w].run] =
                      Some(ApplyForceMatch(task[w].data[1], task[w].arg[1].rrn,
                                           task[w].id, task[w].user))]
    /\ task' = Finish(w)
    /\ UNCHANGED <<clock, history, reconOut, backups, proposals, tmpFile, served, concOther>>

\* run_reconciliation (app.py:617-674): the engine's result is written to
\* OUTPUT_DIR/<run>/recon_output.json with open(path, 'w') and json.dump
ConcReconcile(w, run_id) ==
    /\ task[w].pc = "idle"
    /\ Accept
    /\ _validate_run_exists(run_id)
    /\ task' = [task EXCEPT ![w] = [IdleTask EXCEPT !.op = "reconcile", !.pc = "open_out",
                                       !.run = run_id]]
    /\ UNCHANGED <<clock, history, reconOut, backups, proposals, reconUp, tmpFile, concOther>>

ConcOpenOut(w) ==
    /\ task[w].pc = "open_out"
    /\ reconOut' = [reconOut EXCEPT ![task[w].run] = Torn]
    /\ task' = Goto(w, "dump_out")
    /\ UNCHANGED <<clock, history, backups, proposals, reconUp, tmpFile, served, concOther>>

ConcDumpOut(w) ==
    /\ task[w].pc = "dump_out"
    /\ reconOut' = [reconOut EXCEPT ![task[w].run] = Some(InitRecon)]
    /\ task' = Finish(w)
    /\ UNCHANGED <<clock, history, backups, proposals, reconUp, tmpFile, served, concOther>>

ConcStart ==
    \E w \in Workers :
        \/ \E affected \in AffectedChoices : ConcMidRecon(w, "R1", affected)
        \/ \E user \in Users : ConcPropose(w, user, "r1", "R1")
        \/ \E user \in Users, proposal_id \in ProposalIds : ConcApprove(w, user, proposal_id, "R1")
        \/ ConcReconcile(w, "R1")

ConcRollbackStep ==
    \E w \in Workers :
        \/ ConcLogRead(w) \/ ConcLogWrite(w)
        \/ ConcStatusRead(w) \/ ConcStatusWrite(w)
        \/ ConcReadRecon(w) \/ ConcBackup(w) \/ ConcTmpWrite(w) \/ ConcReplace(w)

ConcForceMatchStep ==
    \E w \in Workers :
        \/ ConcLoadProposals(w) \/ ConcReloadProposals(w) \/ ConcSaveProposals(w)
        \/ ConcReadUp(w) \/ ConcOpenUp(w) \/ ConcDumpUp(w)

ConcReconcileStep == \E w \in Workers : ConcOpenOut(w) \/ ConcDumpOut(w)

NextConc ==
    \/ ConcStart
    \/ ConcRollbackStep
    \/ ConcForceMatchStep
    \/ ConcReconcileStep
    \/ Tick

SpecConc == Init /\ [][NextConc]_vars

(***************************************************************************)
(* Claims about interleaved requests                                       *)
(***************************************************************************)
\* from the precondition check to the final history update
InRollback(w) == task[w].op = "mid_recon"

Replaces(w) == task[w].pc = "replace" /\ task'[w].pc = COMPLETED

\* C7: rollbacks of one run are serialized: never two workers between the
\* precondition check and the final history update of a rollback of the same
\* run, and a rollback replaces recon_output.json only while the file still
\* holds what that rollback loaded (it overwrites nobody else's change).
C7_PerRunSerialized ==
    /\ [](\A w1, w2 \in Workers :
            (w1 # w2 /\ InRollback(w1) /\ InRollback(w2)) => task[w1].run # task[w2].run)
    /\ [][\A w \in Workers :
            Replaces(w) => reconOut[task[w].run] = task[w].data]_vars

WritesStatus(w, id) ==
    /\ task[w].pc \in WritePcs
    /\ task'[w].pc # task[w].pc
    /\ task[w].id = id

HistoryKept ==
    /\ Len(history') >= Len(history)
    /\ \A i \in 1..Len(history) :
          /\ i <= Len(history') => history'[i].rollback_id = history[i].rollback_id
          /\ (i <= Len(history') /\ history'[i].status # history[i].status) =>
                \E w \in Workers : WritesStatus(w, history[i].rollback_id)

ProposalsKept ==
    \A r \in RunIds :
        /\ Len(proposals'[r]) >= Len(proposals[r])
        /\ \A i \in 1..Len(proposals[r]) :
              i <= Len(proposals'[r]) =>
                  /\ proposals'[r][i].proposal_id = proposals[r][i].proposal_id
                  /\ proposals[r][i].status = "approved" =>
                        proposals'[r][i].status = "approved"

\* C8: no write of rollback_history.json or of a proposals file loses an
\* update: every record in the file stays in it, a record's status changes
\* only by the status update of its own rollback, and an approved proposal
\* stays approved.
C8_NoLostUpdate == [][HistoryKept /\ ProposalsKept]_vars

ReadsReconOut(w) == task[w].pc = "read" /\ task'[w].pc # "read"

ReadsReconUp(w) == task[w].pc = "read_up" /\ task'[w].pc # "read_up"

\* C9: recon_output.json (under OUTPUT_DIR and under UPLOAD_DIR) never holds
\* partial content, and no rollback or force-match approval loads a
\* partially written file.
C9_AtomicReplace ==
    /\ [](\A r \in RunIds : reconOut[r] # Torn /\ reconUp[r] # Torn)
    /\ [][\A w \in Workers :
            /\ ReadsReconOut(w) => reconOut[task[w].run] # Torn
            /\ ReadsReconUp(w) => reconUp[task[w].run] # Torn]_vars

(***************************************************************************)
(* UPI reconciliation engine (upi_recon_engine.py).  rows holds the three  *)
(* dataframes; a row keeps its input columns and the five engine columns   *)
(* added at lines 50-57.  Tran_Date counts minutes, Amount whole rupees.   *)
(***************************************************************************)
NaN == "NaN"
None == "None"
Sources == {"cbs", "switch", "npci"}

Row(upi, rrn, date, amount, dr_cr, rc) ==
    [UPI_Tran_ID |-> upi, RRN |-> rrn, Tran_Date |-> date, Amount |-> amount,
     Dr_Cr |-> dr_cr, RC |-> rc,
     processed |-> FALSE, match_status |-> "UNMATCHED", exception_type |-> None,
     ttum_required |-> FALSE, ttum_type |-> None]

Fresh(r) == Row(r.UPI_Tran_ID, r.RRN, r.Tran_Date, r.Amount, r.Dr_Cr, r.RC)

Abs(x) == IF x < 0 THEN -x ELSE x
Day == 1440
Hour(t) == (t % Day) \div 60
Minute(t) == t % 60

RECURSIVE Ascending(_)
Ascending(S) ==
    IF S = {} THEN <<>>
    ELSE LET m == CHOOSE i \in S : \A j \in S : i <= j
         IN <<m>> \o Ascending(S \ {m})

Unprocessed(df) == {i \in 1..Len(df) : ~df[i].processed}

\* df.loc[idx, ...] = ... for the status columns / the TTUM columns
MarkStatus(df, S, match_status, exception_type) ==
    [i \in 1..Len(df) |->
        IF i \in S
        THEN [df[i] EXCEPT !.processed = TRUE, !.match_status = match_status,
                           !.exception_type = exception_type]
        ELSE df[i]]

MarkTtum(df, S, ttum_required, ttum_type) ==
    [i \in 1..Len(df) |->
        IF i \in S
        THEN [df[i] EXCEPT !.ttum_required = ttum_required, !.ttum_type = ttum_type]
        ELSE df[i]]

\* (df['RRN'] == row['RRN']) & (df['Amount'] == row['Amount']); NaN equals nothing
SameRrnAmount(df, rrn, amount) ==
    {i \in 1..Len(df) : rrn # NaN /\ df[i].RRN = rrn /\ df[i].Amount = amount}

(***************************************************************************)
(* Step 1: cut-off transactions (lines 78-140, 605-653)                    *)
(***************************************************************************)
_find_partial_match(df, npci_row) ==
    FirstIndex({i \in 1..Len(df) :
                  /\ npci_row.RRN # NaN => df[i].RRN = npci_row.RRN
                  /\ Abs(df[i].Tran_Date - npci_row.Tran_Date) <= 2 * Day})

_mark_as_hanging(npci, npci_row, reason) ==
    MarkStatus(npci, SameRrnAmount(npci, npci_row.RRN, npci_row.Amount), "HANGING", reason)

NearCutOff(t) == Hour(t) >= 23 \/ (Hour(t) = 22 /\ Minute(t) >= 30)

RECURSIVE CutOffLoop(_, _)
CutOffLoop(st, todo) ==
    IF todo = <<>> THEN st
    ELSE LET npci_row == st.npci[Head(todo)]
             c == _find_partial_match(st.cbs, npci_row)
             s == _find_partial_match(st.switch, npci_row)
             differs == \/ c # 0 /\ st.cbs[c].Amount # npci_row.Amount
                        \/ s # 0 /\ st.switch[s].Amount # npci_row.Amount
             st1 == IF differs
                    THEN [st EXCEPT !.npci = _mark_as_hanging(@, npci_row, "CUT_OFF_TRANSACTION")]
                    ELSE IF NearCutOff(npci_row.Tran_Date)
                    THEN [st EXCEPT !.npci = _mark_as_hanging(@, npci_row, "CUT_OFF_TIME")]
                    ELSE st
         IN CutOffLoop(st1, Tail(todo))

Step1(st) == CutOffLoop(st, Ascending(Unprocessed(st.npci)))

(***************************************************************************)
(* Step 2: self-matched transactions (lines 142-185); groupby drops the    *)
(* rows with a NaN key and runs over the whole dataframe                   *)
(***************************************************************************)
HasKeys(r) == r.UPI_Tran_ID # NaN /\ r.RRN # NaN

SelfGroup(df, i) ==
    {j \in 1..Len(df) :
        /\ HasKeys(df[i]) /\ HasKeys(df[j])
        /\ df[j].UPI_Tran_ID = df[i].UPI_Tran_ID /\ df[j].RRN = df[i].RRN
        /\ df[j].Tran_Date = df[i].Tran_Date /\ df[j].Amount = df[i].Amount}

DrCrPair(df, G) ==
    LET vals == {df[j].Dr_Cr : j \in G}
    IN Cardinality(vals) = 2 /\ vals \subseteq {"DR", "CR", "D", "C"}

SelfMatched(df, needsDrCr) ==
    {i \in 1..Len(df) :
        /\ Cardinality(SelfGroup(df, i)) = 2
        /\ needsDrCr => DrCrPair(df, SelfGroup(df, i))}

Step2(st) ==
    [cbs |-> MarkStatus(st.cbs, SelfMatched(st.cbs, TRUE), "MATCHED", "SELF_MATCHED"),
     switch |-> MarkStatus(st.switch, SelfMatched(st.switch, TRUE), "MATCHED", "SELF_MATCHED"),
     npci |-> MarkStatus(st.npci, SelfMatched(st.npci, FALSE), "MATCHED", "SELF_MATCHED")]

(***************************************************************************)
(* Step 3: settlement entries (lines 187-238); unprocessed_cbs is taken    *)
(* once, before the loop                                                   *)
(***************************************************************************)
SettlementThreshold == 1000

OppositeEntries(cbs, snapshot, i) ==
    {j \in snapshot :
        /\ cbs[j].Amount = cbs[i].Amount
        /\ IF cbs[i].Dr_Cr \in {"DR", "D"}
           THEN cbs[j].Dr_Cr \in {"CR", "C", "DR", "D"}
           ELSE cbs[j].Dr_Cr \in {"DR", "D"}}

RECURSIVE SettlementLoop(_, _, _)
SettlementLoop(cbs, snapshot, todo) ==
    IF todo = <<>> THEN cbs
    ELSE LET i == Head(todo)
             opposite_entries == OppositeEntries(cbs, snapshot, i)
             cbs1 == IF cbs[i].Amount > SettlementThreshold /\ opposite_entries # {}
                     THEN MarkStatus(cbs, {i} \cup opposite_entries,
                                     "MATCHED", "SETTLEMENT_ENTRY")
                     ELSE cbs
         IN SettlementLoop(cbs1, snapshot, Tail(todo))

Step3(st) ==
    LET snapshot == Unprocessed(st.cbs)
        no_rrn == {i \in snapshot : st.cbs[i].RRN \in {NaN, ""}}
    IN [st EXCEPT !.cbs = SettlementLoop(@, snapshot, Ascending(no_rrn))]

(***************************************************************************)
(* Step 4: double debit / credit (lines 240-260), CBS and Switch only      *)
(***************************************************************************)
DoubleEntries(df) ==
    {i \in Unprocessed(df) :
        /\ df[i].RRN # NaN
        /\ \E j \in Unprocessed(df) : j # i /\ df[j].RRN = df[i].RRN}

MarkDouble(df) ==
    MarkTtum(MarkStatus(df, DoubleEntries(df), "UNMATCHED", "DOUBLE_DEBIT_CREDIT"),
             DoubleEntries(df), TRUE, "REVERSAL")

Step4(st) == [st EXCEPT !.cbs = MarkDouble(@), !.switch = MarkDouble(@)]

(***************************************************************************)
(* Step 5: normal matching (lines 262-389)                                 *)
(***************************************************************************)
UPI_MATCHING_CONFIGS ==
    <<[name |-> "best_match", params |-> {"UPI_Tran_ID", "RRN", "Tran_Date", "Amount"}],
      [name |-> "relaxed_match_i", params |-> {"UPI_Tran_ID", "Tran_Date", "Amount"}],
      [name |-> "relaxed_match_ii", params |-> {"RRN", "Tran_Date", "Amount"}]>>

ParamMatches(row, npci_row, param) ==
    IF param = "Amount" THEN row.Amount = npci_row.Amount
    ELSE IF param = "Tran_Date"
    THEN Abs(row.Tran_Date - npci_row.Tran_Date) <= Day
    ELSE row[param] = npci_row[param]

\* pd.notna(npci_row[param]); Tran_Date and Amount are present in every row
NotNa(npci_row, param) == param \in {"Tran_Date", "Amount"} \/ npci_row[param] # NaN

\* first row of the candidates that meets every condition built from the
\* non-NaN parameters of the NPCI row; 0 when none (or no condition)
_find_matching_record(df, candidates, npci_row, match_params) ==
    LET conditions == {p \in match_params : NotNa(npci_row, p)}
    IN IF conditions = {} THEN 0
       ELSE FirstIndex({i \in candidates :
                          \A p \in conditions : ParamMatches(df[i], npci_row, p)})

_mark_as_matched(st, c, s, n, match_type) ==
    [cbs |-> MarkStatus(st.cbs, SameRrnAmount(st.cbs, st.cbs[c].RRN, st.cbs[c].Amount),
                        "MATCHED", match_type),
     switch |-> MarkStatus(st.switch,
                           SameRrnAmount(st.switch, st.switch[s].RRN, st.switch[s].Amount),
                           "MATCHED", match_type),
     npci |-> MarkStatus(st.npci, SameRrnAmount(st.npci, st.npci[n].RRN, st.npci[n].Amount),
                         "MATCHED", match_type)]

RECURSIVE MatchingLoop(_, _, _, _, _)
MatchingLoop(acc, unprocessed_cbs, unprocessed_switch, todo, config) ==
    IF todo = <<>> THEN acc
    ELSE LET st == acc.st
             n == Head(todo)
             c == _find_matching_record(st.cbs, unprocessed_cbs, st.npci[n], config.params)
             s == _find_matching_record(st.switch, unprocessed_switch, st.npci[n], config.params)
             acc1 == IF c # 0 /\ s # 0
                     THEN [st |-> _mark_as_matched(st, c, s, n, config.name),
                           matched_count |-> acc.matched_count + 1,
                           pairs |-> Append(acc.pairs, <<c, s, n>>)]
                     ELSE acc
         IN MatchingLoop(acc1, unprocessed_cbs, unprocessed_switch, Tail(todo), config)

_perform_matching_round(acc, npci_candidates, config) ==
    MatchingLoop(acc, Unprocessed(acc.st.cbs), Unprocessed(acc.st.switch),
                 npci_candidates, config)

RECURSIVE ConfigLoop(_, _, _)
ConfigLoop(acc, npci_candidates, k) ==
    IF k > Len(UPI_MATCHING_CONFIGS) \/ acc.matched_count > 0 THEN acc
    ELSE ConfigLoop(_perform_matching_round(acc, npci_candidates, UPI_MATCHING_CONFIGS[k]),
                    npci_candidates, k + 1)

Step5(st) ==
    LET successful_npci == {i \in Unprocessed(st.npci) : st.npci[i].RC = "00"}
    IN ConfigLoop([st |-> st, matched_count |-> 0, pairs |-> <<>>],
                  Ascending(successful_npci), 1).st

\* the three-way matches of step 5 in the order they are made: the CBS row,
\* the Switch row and the NPCI row handed to _mark_as_matched (line 310)
Step5Pairs(st) ==
    LET successful_npci == {i \in Unprocessed(st.npci) : st.npci[i].RC = "00"}
    IN ConfigLoop([st |-> st, matched_count |-> 0, pairs |-> <<>>],
                  Ascending(successful_npci), 1).pairs

(***************************************************************************)
(* Step 6: deemed accepted, RC = 'RB' (lines 391-426)                      *)
(***************************************************************************)
RECURSIVE DeemedLoop(_, _)
DeemedLoop(st, todo) ==
    IF todo = <<>> THEN st
    ELSE LET n == Head(todo)
             rrn == st.npci[n].RRN
             cbs_debit == {i \in Unprocessed(st.cbs) :
                             /\ rrn # NaN /\ st.cbs[i].RRN = rrn
                             /\ st.cbs[i].Dr_Cr \in {"DR", "D", "DEBIT"}}
             st1 == IF cbs_debit # {}
                    THEN [st EXCEPT !.npci = MarkStatus(@, {n}, "MATCHED", "TCC_102"),
                                    !.cbs = MarkStatus(@, cbs_debit, "MATCHED", "TCC_102")]
                    ELSE [st EXCEPT !.npci =
                            MarkTtum(MarkStatus(@, {n}, "UNMATCHED", "TCC_103"),
                                     {n}, TRUE, "BENEFICIARY_CREDIT")]
         IN DeemedLoop(st1, Tail(todo))

Step6(st) ==
    DeemedLoop(st, Ascending({i \in Unprocessed(st.npci) : st.npci[i].RC = "RB"}))

(***************************************************************************)
(* Step 7: NPCI declined (lines 428-458)                                   *)
(***************************************************************************)
RECURSIVE DeclinedLoop(_, _)
DeclinedLoop(st, todo) ==
    IF todo = <<>> THEN st
    ELSE LET n == Head(todo)
             rrn == st.npci[n].RRN
             cbs_entries == {i \in Unprocessed(st.cbs) : rrn # NaN /\ st.cbs[i].RRN = rrn}
             st1 == [st EXCEPT
                       !.cbs = MarkTtum(MarkStatus(@, cbs_entries, "UNMATCHED", "NPCI_FAILED"),
                                        cbs_entries, TRUE, "REVERSAL"),
                       !.npci = MarkStatus(@, {n}, "UNMATCHED", "NPCI_DECLINED")]
         IN DeclinedLoop(st1, Tail(todo))

Step7(st) ==
    DeclinedLoop(st, Ascending({i \in Unprocessed(st.npci) :
                                  st.npci[i].RC \notin {"00", "RB"}}))

(***************************************************************************)
(* Step 8: failed auto-credit reversal (lines 460-505)                     *)
(***************************************************************************)
RrnGroup(df, snapshot, i) == {j \in snapshot : df[i].RRN # NaN /\ df[j].RRN = df[i].RRN}

RECURSIVE ReversalLoop(_, _, _)
ReversalLoop(st, snapshot, todo) ==
    IF todo = <<>> THEN st
    ELSE LET n == Head(todo)
             group == RrnGroup(st.npci, snapshot, n)
             cbs_entries == {i \in Unprocessed(st.cbs) : st.cbs[i].RRN = st.npci[n].RRN}
             hit == /\ Cardinality(group) = 2
                    /\ Cardinality({st.npci[j].Amount : j \in group}) = 1
                    /\ Cardinality(cbs_entries) = 1
             st1 == IF hit
                    THEN [st EXCEPT
                            !.npci = MarkTtum(MarkStatus(@, group, "UNMATCHED",
                                                         "FAILED_AUTO_REVERSAL"),
                                              group, TRUE, "REVERSAL"),
                            !.cbs = MarkTtum(MarkStatus(@, cbs_entries, "UNMATCHED",
                                                        "FAILED_AUTO_REVERSAL"),
                                             cbs_entries, TRUE, "REVERSAL")]
                    ELSE st
         IN ReversalLoop(st1, snapshot, Tail(todo))

\* one iteration per RRN group: the first row of each group stands for it
Step8(st) ==
    LET snapshot == Unprocessed(st.npci)
        firsts == {i \in snapshot :
                     /\ st.npci[i].RRN # NaN
                     /\ \A j \in RrnGroup(st.npci, snapshot, i) : i <= j}
    IN ReversalLoop(st, snapshot, Ascending(firsts))

(***************************************************************************)
(* Exception handling matrix (lines 768-899, config.py:174-215)            *)
(***************************************************************************)
EXCEPTION_MATRIX(cbs_status, switch_status, npci_status) ==
    CASE <<cbs_status, switch_status, npci_status>> = <<"SUCCESS", "SUCCESS", "SUCCESS">>
            -> "MATCHED"
      [] <<cbs_status, switch_status, npci_status>> = <<"SUCCESS", "SUCCESS", "FAILED">>
            -> "REMITTER_REFUND"
      [] <<cbs_status, switch_status, npci_status>> = <<"SUCCESS", "FAILED", "SUCCESS">>
            -> "SWITCH_UPDATE"
      [] <<cbs_status, switch_status, npci_status>> = <<"SUCCESS", "FAILED", "FAILED">>
            -> "REMITTER_REFUND"
      [] <<cbs_status, switch_status, npci_status>> = <<"FAILED", "SUCCESS", "SUCCESS">>
            -> "BENEFICIARY_RECOVERY"
      [] <<cbs_status, switch_status, npci_status>> = <<"FAILED", "SUCCESS", "FAILED">>
            -> "UNMATCHED"
      [] <<cbs_status, switch_status, npci_status>> = <<"FAILED", "FAILED", "SUCCESS">>
            -> "BENEFICIARY_RECOVERY"
      [] OTHER -> "UNMATCHED"

\* 0 stands for "no row" (None)
_find_matching_by_rrn(df, snapshot, rrn) ==
    FirstIndex({i \in snapshot : rrn # NaN /\ df[i].RRN = rrn})

_get_source_status(df, i, source) ==
    IF i = 0 THEN "FAILED"
    ELSE IF source = "CBS" THEN "SUCCESS"
    ELSE IF source = "SWITCH"
    THEN (IF df[i].RC = "00" THEN "SUCCESS" ELSE "FAILED")
    ELSE (IF df[i].RC \in {"00", "RB"} THEN "SUCCESS" ELSE "FAILED")

\* one dataframe's share of _mark_transaction_status: every row with the
\* RRN and Amount of row i; exception_type and ttum_type only when given
MarkSource(df, i, match_status, exception_type, ttum_required, ttum_type) ==
    IF i = 0 THEN df
    ELSE LET S == SameRrnAmount(df, df[i].RRN, df[i].Amount)
         IN [k \in 1..Len(df) |->
               IF k \in S
               THEN [df[k] EXCEPT
                       !.processed = TRUE,
                       !.match_status = match_status,
                       !.exception_type = IF exception_type # None
                                          THEN exception_type ELSE @,
                       !.ttum_required = ttum_required,
                       !.ttum_type = IF ttum_type # None THEN ttum_type ELSE @]
               ELSE df[k]]

_mark_transaction_status(st, c, s, n, match_status, exception_type, ttum_required, ttum_type) ==
    [cbs |-> MarkSource(st.cbs, c, match_status, exception_type, ttum_required, ttum_type),
     switch |-> MarkSource(st.switch, s, match_status, exception_type, ttum_required, ttum_type),
     npci |-> MarkSource(st.npci, n, match_status, exception_type, ttum_required, ttum_type)]

_apply_exception_actions(st, c, s, n, action_type) ==
    IF action_type = "MATCHED"
    THEN _mark_transaction_status(st, c, s, n, "MATCHED", None, FALSE, None)
    ELSE IF action_type = "REMITTER_REFUND"
    THEN _mark_transaction_status(st, c, s, n, "UNMATCHED", "NPCI_FAILED", TRUE, "REVERSAL")
    ELSE IF action_type = "BENEFICIARY_RECOVERY"
    THEN _mark_transaction_status(st, c, s, n, "UNMATCHED", "BENEFICIARY_RECOVERY",
                                  TRUE, "BENEFICIARY_CREDIT")
    ELSE IF action_type = "SWITCH_UPDATE"
    THEN _mark_transaction_status(st, c, s, n, "UNMATCHED", "SWITCH_UPDATE", FALSE, None)
    ELSE _mark_transaction_status(st, c, s, n, "UNMATCHED", None, FALSE, None)

RECURSIVE MatrixLoop(_, _, _, _)
MatrixLoop(st, unprocessed_switch, unprocessed_npci, todo) ==
    IF todo = <<>> THEN st
    ELSE LET c == Head(todo)
             rrn == st.cbs[c].RRN
             s == _find_matching_by_rrn(st.switch, unprocessed_switch, rrn)
             n == _find_matching_by_rrn(st.npci, unprocessed_npci, rrn)
             action_type == EXCEPTION_MATRIX(_get_source_status(st.cbs, c, "CBS"),
                                             _get_source_status(st.switch, s, "SWITCH"),
                                             _get_source_status(st.npci, n, "NPCI"))
             st1 == IF rrn = NaN THEN st
                    ELSE _apply_exception_actions(st, c, s, n, action_type)
         IN MatrixLoop(st1, unprocessed_switch, unprocessed_npci, Tail(todo))

ApplyMatrix(st) ==
    MatrixLoop(st, Unprocessed(st.switch), Unprocessed(st.npci),
               Ascending(Unprocessed(st.cbs)))

(***************************************************************************)
(* perform_upi_reconciliation (lines 31-76): the engine columns are reset, *)
(* then the eight steps and the exception matrix run in sequence           *)
(***************************************************************************)
upiOther == <<clock, rbVars, fmVars, concVars, legVars, hangVars, rlVars, ttumVars>>

perform_upi_reconciliation ==
    /\ upc = "idle"
    /\ rows' = [src \in Sources |-> [i \in 1..Len(rows[src]) |-> Fresh(rows[src][i])]]
    /\ upc' = "step1"
    /\ UNCHANGED upiOther

_step_1_cut_off_transactions ==
    upc = "step1" /\ rows' = Step1(rows) /\ upc' = "step2" /\ UNCHANGED upiOther

_step_2_self_matched_transactions ==
    upc = "step2" /\ rows' = Step2(rows) /\ upc' = "step3" /\ UNCHANGED upiOther

_step_3_settlement_entries ==
    upc = "step3" /\ rows' = Step3(rows) /\ upc' = "step4" /\ UNCHANGED upiOther

_step_4_double_debit_credit ==
    upc = "step4" /\ rows' = Step4(rows) /\ upc' = "step5" /\ UNCHANGED upiOther

_step_5_normal_matching ==
    upc = "step5" /\ rows' = Step5(rows) /\ upc' = "step6" /\ UNCHANGED upiOther

_step_6_deemed_accepted_matching ==
    upc = "step6" /\ rows' = Step6(rows) /\ upc' = "step7" /\ UNCHANGED upiOther

_step_7_npci_declined_transactions ==
    upc = "step7" /\ rows' = Step7(rows) /\ upc' = "step8" /\ UNCHANGED upiOther

_step_8_failed_auto_credit_reversal ==
    upc = "step8" /\ rows' = Step8(rows) /\ upc' = "matrix" /\ UNCHANGED upiOther

_apply_exception_handling_matrix ==
    upc = "matrix" /\ rows' = ApplyMatrix(rows) /\ upc' = "done" /\ UNCHANGED upiOther

(***************************************************************************)
(* Input datasets: up to MaxCbsRows / MaxSwitchRows / MaxNpciRows rows     *)
(* drawn from a few transactions                                           *)
(***************************************************************************)
Morning == 600
Late == 22 * 60 + 45

CbsRows ==
    {Row("u1", "r1", Morning, 500, "DR", NaN),
     Row("u1", "r1", Morning, 500, "CR", NaN),
     Row("u9", "r1", Morning, 500, "DR", NaN),
     Row("u2", "r2", Morning, 2000, "CR", NaN),
     Row("u2", "r2", Morning, 2000, "DR", NaN),
     Row(NaN, NaN, Morning, 2000, "DR", NaN)}

SwitchRows ==
    {Row("u1", "r1", Morning, 500, "DR", "00"),
     Row("u2", "r2", Morning, 2000, "DR", "91")}

NpciRows ==
    {Row("u1", "r1", Morning, 500, NaN, "00"),
     Row("u1", "r1", Late, 500, NaN, "00"),
     Row("u1", "r1", Morning + 60, 500, NaN, "00"),
     Row("u2", "r2", Morning, 2000, NaN, "RB"),
     Row("u2", "r2", Morning, 500, NaN, "U30")}

SeqsUpTo(T, n) == UNION {[1..k -> T] : k \in 0..n}

InitDataset ==
    /\ rows \in [cbs : SeqsUpTo(CbsRows, MaxCbsRows),
                 switch : SeqsUpTo(SwitchRows, MaxSwitchRows),
                 npci : SeqsUpTo(NpciRows, MaxNpciRows)]
    /\ upc = "idle"

InitUPI ==
    /\ clock = 0
    /\ InitRunStore
    /\ InitForceMatch
    /\ InitWorkers
    /\ InitDataset
    /\ InitLegacy

NextUPI ==
    \/ perform_upi_reconciliation
    \/ _step_1_cut_off_transactions
    \/ _step_2_self_matched_transactions
    \/ _step_3_settlement_entries
    \/ _step_4_double_debit_credit
    \/ _step_5_normal_matching
    \/ _step_6_deemed_accepted_matching
    \/ _step_7_npci_declined_transactions
    \/ _step_8_failed_auto_credit_reversal
    \/ _apply_exception_handling_matrix

SpecUPI == InitUPI /\ [][NextUPI]_vars

EngineColumns(r) == <<r.match_status, r.exception_type, r.ttum_required, r.ttum_type>>

\* C10: a row that a pass has marked processed keeps its match_status,
\* exception_type, ttum_required and ttum_type through every later pass and
\* through the exception matrix.
C10_ProcessedRowsKept ==
    [][upc # "idle" =>
         \A src \in Sources : \A i \in 1..Len(rows[src]) :
             rows[src][i].processed =>
                 EngineColumns(rows'[src][i]) = EngineColumns(rows[src][i])]_vars

(***************************************************************************)
(* Residual classification by the exception matrix                         *)
(***************************************************************************)
\* the (CBS, Switch, NPCI) triple of an RRN over the unprocessed rows
TripleAction(st, rrn) ==
    EXCEPTION_MATRIX(
        IF \E i \in Unprocessed(st.cbs) : st.cbs[i].RRN = rrn THEN "SUCCESS" ELSE "FAILED",
        _get_source_status(st.switch,
                           _find_matching_by_rrn(st.switch, Unprocessed(st.switch), rrn),
                           "SWITCH"),
        _get_source_status(st.npci,
                           _find_matching_by_rrn(st.npci, Unprocessed(st.npci), rrn),
                           "NPCI"))

\* the columns a row carries once it is classified with an action of the matrix
Classified(r, action_type) ==
    /\ r.processed
    /\ CASE action_type = "MATCHED" -> r.match_status = "MATCHED" /\ ~r.ttum_required
         [] action_type = "REMITTER_REFUND" ->
                /\ r.match_status = "UNMATCHED" /\ r.exception_type = "NPCI_FAILED"
                /\ r.ttum_required /\ r.ttum_type = "REVERSAL"
         [] action_type = "BENEFICIARY_RECOVERY" ->
                /\ r.match_status = "UNMATCHED" /\ r.exception_type = "BENEFICIARY_RECOVERY"
                /\ r.ttum_required /\ r.ttum_type = "BENEFICIARY_CREDIT"
         [] action_type = "SWITCH_UPDATE" ->
                /\ r.match_status = "UNMATCHED" /\ r.exception_type = "SWITCH_UPDATE"
                /\ ~r.ttum_required
         [] OTHER -> r.match_status = "UNMATCHED" /\ ~r.ttum_required

\* C11: the exception matrix step classifies every row that the eight passes
\* left unprocessed by the (CBS, Switch, NPCI) triple of its RRN as the matrix
\* tabulates (an RRN absent from CBS with a successful NPCI row gets
\* BENEFICIARY_RECOVERY with a TTUM), and leaves no row unprocessed.
C11_MatrixClassifiesResidue ==
    [][upc = "matrix" =>
         \A src \in Sources : \A i \in 1..Len(rows[src]) :
             /\ rows'[src][i].processed
             /\ (~rows[src][i].processed /\ rows[src][i].RRN # NaN) =>
                    Classified(rows'[src][i], TripleAction(rows, rows[src][i].RRN))]_vars

(***************************************************************************)
(* Approval and the persisted Reconciliation Record                        *)
(***************************************************************************)
\* the record of the proposal's RRN in the recon_output.json of its run is
\* FORCE_MATCHED
RecordForceMatched(p) ==
    /\ reconUp[p.run_id] # Absent
    /\ FirstRec(reconUp[p.run_id][1].recs, p.rrn) # 0
    /\ reconUp[p.run_id][1].recs[FirstRec(reconUp[p.run_id][1].recs, p.rrn)].status
           = "FORCE_MATCHED"

\* C16: when approve_force_match answers 'approved', the persisted record of
\* the proposal's RRN is FORCE_MATCHED and names the approver; no proposal is
\* approved while the record of its RRN keeps its previous status.
C16_ApprovedIsForceMatched ==
    /\ []((lastOp.op = "approve" /\ lastOp.result = "approved") =>
            \E r \in RunIds : \E i \in 1..Len(proposals[r]) :
                LET p == proposals[r][i]
                IN /\ p.proposal_id = lastOp.proposal_id
                   /\ RecordForceMatched(p)
                   /\ reconUp[p.run_id][1].recs[FirstRec(reconUp[p.run_id][1].recs, p.rrn)]
                          .force_match_approved_by = lastOp.user)
    /\ [](\A r \in RunIds : \A i \in 1..Len(proposals[r]) :
            proposals[r][i].status = "approved" => RecordForceMatched(proposals[r][i]))

(***************************************************************************)
(* Mid-recon rollback: what the moved transactions carry                   *)
(***************************************************************************)
\* a mid-recon rollback of run r rewrote recon_output.json and a record of
\* that level and run became COMPLETED in this step
MidReconCompleted(r) ==
    /\ reconOut[r] # Absent /\ reconOut'[r] # Absent /\ reconOut'[r] # reconOut[r]
    /\ reconOut'[r][1].summary.level = MID_RECON
    /\ \E i \in 1..Len(history') :
          /\ BecomesCompleted(i)
          /\ history'[i].level = MID_RECON /\ history'[i].run_id = r

\* C20: a completed mid-recon rollback moves matched transactions (the
\* selected ones, or all of them when no list is given) to unmatched, none is
\* lost, and every transaction it moved carries rollback_metadata with the
\* rollback id and previous status 'matched'.
C20_MovedCarryMetadata ==
    [][\A r \in RunIds :
          MidReconCompleted(r) =>
              LET old == reconOut[r][1]
                  new == reconOut'[r][1]
              IN /\ \A m \in 1..Len(old.matched) :
                        \/ \E k \in 1..Len(new.matched) : new.matched[k] = old.matched[m]
                        \/ \E k \in (Len(old.unmatched) + 1)..Len(new.unmatched) :
                              new.unmatched[k].txn_id = old.matched[m].txn_id
                 /\ \A k \in (Len(old.unmatched) + 1)..Len(new.unmatched) :
                        new.unmatched[k].rollback_metadata =
                            Some([rollback_id |-> new.summary.last_rollback,
                                  previous_status |-> "matched"])]_vars

(***************************************************************************)
(* Legacy reconciliation engine (recon_engine.py:75-395).  A row is a row  *)
(* of a dataframe load_files_for_recon returns: its canonical columns and  *)
(* the Source the file name gave it (file_handler.py:221-232).  Amounts    *)
(* are in hundredths of a rupee.                                           *)
(***************************************************************************)
LegacyRow(source, rrn, amount, tran_date, dr_cr, rc) ==
    [Source |-> source, RRN |-> rrn, Amount |-> amount, Tran_Date |-> tran_date,
     Dr_Cr |-> dr_cr, RC |-> rc]

\* SOURCES (line 15), and row[SOURCE].lower() for the values the loader assigns
SOURCES == {"cbs", "switch", "npci", "ntsl"}

Lower(source) ==
    CASE source = "CBS" -> "cbs"
      [] source = "SWITCH" -> "switch"
      [] source = "NPCI" -> "npci"
      [] source = "NTSL" -> "ntsl"
      [] OTHER -> "other"

success_markers == {"00", "0", "SUCCESS", "S"}

\* str(rc).upper().startswith('RB') over the response codes of the datasets
StartsWithRB(rc) == rc \in {"RB", "RB1"}

\* _preprocess_dataframes / _combine_dataframes: rows with an empty RRN go
_combine_dataframes(dataframes) ==
    LET HasRrn(row) == row.RRN # ""
    IN SelectSeq(dataframes, HasRrn)

\* combined_df.groupby(RRN) yields the groups in the order of their keys
RrnOrder == <<"r1", "r2">>

RrnGroupOf(df, rrn) ==
    LET InGroup(row) == row.RRN = rrn
    IN SelectSeq(df, InGroup)

\* lines 187-192
dup_rrns(df) ==
    {rrn \in {df[i].RRN : i \in 1..Len(df)} :
        \E src \in {"cbs", "switch", "npci"} :
            Cardinality({i \in 1..Len(df) :
                           Lower(df[i].Source) = src /\ df[i].RRN = rrn}) > 1}

_create_record_structure ==
    [cbs |-> Absent, switch |-> Absent, npci |-> Absent, ntsl |-> Absent,
     status |-> "UNKNOWN"]

SourceFields(row) ==
    [amount |-> row.Amount, date |-> row.Tran_Date, dr_cr |-> row.Dr_Cr, rc |-> row.RC]

\* the last row of each known source wins; rows of other sources are skipped
_populate_record_by_source(record, group) ==
    LET Last(src) ==
            LET S == {i \in 1..Len(group) : Lower(group[i].Source) = src}
            IN IF S = {} THEN record[src]
               ELSE Some(SourceFields(group[CHOOSE i \in S : \A j \in S : j <= i]))
    IN [record EXCEPT !.cbs = Last("cbs"), !.switch = Last("switch"),
                      !.npci = Last("npci"), !.ntsl = Last("ntsl")]

_detect_cutoff_reversal(group) ==
    /\ \E i \in 1..Len(group) : StartsWithRB(group[i].RC)
    /\ \E i \in 1..Len(group) : group[i].RC \notin success_markers /\ group[i].RC # ""

\* lines 226-241: a debit/credit pair of one amount and date, in any sources
SelfReversal(group) ==
    \E i, j \in 1..Len(group) :
        /\ group[i].Amount = group[j].Amount
        /\ group[i].Dr_Cr # group[j].Dr_Cr
        /\ group[i].Tran_Date = group[j].Tran_Date

\* 0.01 rupee, in hundredths: recon_engine.py:368, settlement_engine.py:463
Tolerance == 1

\* cbs.get('dr_cr','').upper().startswith('C') over the values of the datasets
StartsWithC(dr_cr) == dr_cr \in {"C", "CR", "CREDIT"}

_classify_record(record, sources) ==
    LET present == {s \in SOURCES : record[s] # Absent}
        amount_set == {record[s][1].amount : s \in present}
        date_set == {record[s][1].date : s \in present}
        num_sources == Cardinality(sources)
        amounts_match == Cardinality(amount_set) = 1
        dates_match == Cardinality(date_set) = 1
        by_count ==
            IF num_sources = 3
            THEN (IF amounts_match /\ dates_match THEN "MATCHED" ELSE "MISMATCH")
            ELSE IF num_sources = 2
            THEN (IF amounts_match /\ dates_match THEN "PARTIAL_MATCH" ELSE "PARTIAL_MISMATCH")
            ELSE IF num_sources = 1 THEN "ORPHAN"
            ELSE "UNKNOWN"
        gl == IF record.cbs # Absent THEN record.cbs
              ELSE IF record.switch # Absent THEN record.switch
              ELSE record.npci
        settled == /\ record.ntsl # Absent /\ gl # Absent
                   /\ Abs(record.ntsl[1].amount - gl[1].amount) < Tolerance
        by_ntsl == IF settled THEN "MATCHED" ELSE by_count
        failed == /\ record.npci # Absent /\ record.npci[1].rc \notin success_markers
                  /\ record.cbs # Absent /\ record.cbs[1].rc \in success_markers
        \* lines 340-352: the TCC rule, on the NPCI and CBS legs
        tagged == IF record.npci # Absent /\ StartsWithRB(record.npci[1].rc)
                  THEN IF record.cbs # Absent /\ StartsWithC(record.cbs[1].dr_cr)
                       THEN Put(record, "tcc", "TCC_102")
                       ELSE Put(Put(record, "tcc", "TCC_103"), "needs_ttum", TRUE)
                  ELSE record
    IN [tagged EXCEPT !.status = IF failed THEN "EXCEPTION" ELSE by_ntsl]

\* one iteration of the loop over the groups (lines 198-253)
ClassifyGroup(df, rrn) ==
    LET group == RrnGroupOf(df, rrn)
        sources == {group[i].Source : i \in 1..Len(group)}
        record == _populate_record_by_source(_create_record_structure, group)
        classified == _classify_record(record, sources)
    IN IF _detect_cutoff_reversal(group) THEN [record EXCEPT !.status = "HANGING"]
       ELSE IF rrn \in dup_rrns(df) THEN [record EXCEPT !.status = "DUPLICATE"]
       ELSE IF SelfReversal(group) THEN [record EXCEPT !.status = "MATCHED"]
       ELSE IF /\ classified.status = "ORPHAN"
               /\ classified.cbs # Absent /\ classified.switch # Absent
               /\ classified.npci = Absent
       THEN [classified EXCEPT !.status = "HANGING"]
       ELSE classified

\* an entry of the results dict: a record under its RRN, or the list of
\* hanging RRNs under 'hanging_list'
Entry(key, record, list) == [key |-> key, record |-> record, list |-> list]

\* results in insertion order: 'hanging_list' is inserted just before the
\* record of the first hanging RRN (lines 210-213, 249-253)
RECURSIVE GroupLoop(_, _, _)
GroupLoop(df, k, acc) ==
    IF k > Len(RrnOrder) THEN acc
    ELSE LET rrn == RrnOrder[k]
             record == ClassifyGroup(df, rrn)
             listed == \E i \in 1..Len(acc) : acc[i].key = "hanging_list"
             acc1 == IF record.status = "HANGING" /\ ~listed
                     THEN Append(acc, Entry("hanging_list", Absent, <<>>))
                     ELSE acc
             acc2 == IF record.status = "HANGING"
                     THEN [i \in 1..Len(acc1) |->
                             IF acc1[i].key = "hanging_list"
                             THEN [acc1[i] EXCEPT !.list = Append(@, rrn)]
                             ELSE acc1[i]]
                     ELSE acc1
         IN IF RrnGroupOf(df, rrn) = <<>> THEN GroupLoop(df, k + 1, acc)
            ELSE GroupLoop(df, k + 1, Append(acc2, Entry(rrn, Some(record), <<>>)))

_perform_reconciliation_logic(combined) == GroupLoop(combined, 1, <<>>)

\* reconcile (lines 75-91): Absent stands for the ValueError of an input
\* without any row that has an RRN
reconcile(dataframes) ==
    LET combined == _combine_dataframes(dataframes)
    IN IF combined = <<>> THEN Absent
       ELSE Some(_perform_reconciliation_logic(combined))

(***************************************************************************)
(* Settlement engine (settlement_engine.py:233-483)                        *)
(***************************************************************************)
GENERATED == "generated"
POSTED == "posted"

GLEntry(account, debit_amount, credit_amount) ==
    [account |-> account, debit_amount |-> debit_amount, credit_amount |-> credit_amount]

NewVoucher(voucher_id, voucher_type, amount, gl_entries, rrn) ==
    [voucher_id |-> voucher_id, voucher_type |-> voucher_type, amount |-> amount,
     gl_entries |-> gl_entries, status |-> GENERATED, posted_at |-> -1, rrn |-> rrn]

\* lines 345-364: debit Bank Account, credit Settlement Receivable
PaymentEntriesMut(amount) ==
    <<GLEntry("bank_account", amount, 0),
      GLEntry("settlement_receivable", 0, amount - 2 * Tolerance)>>

PaymentEntries(amount) ==
    <<GLEntry("bank_account", amount, 0), GLEntry("settlement_receivable", 0, amount)>>

\* lines 405-424: debit Suspense, credit Settlement Payable
SettlementEntries(amount) ==
    <<GLEntry("suspense_account", amount, 0), GLEntry("settlement_payable", 0, amount)>>

_create_payment_voucher(counter, rrn, record) ==
    LET amount == IF record.cbs # Absent THEN record.cbs[1].amount ELSE 0
    IN IF amount <= 0 THEN Absent
       ELSE Some(NewVoucher(<<"VOUCHER", counter>>, "PAYMENT", amount,
                            PaymentEntries(amount), rrn))

_create_settlement_voucher(counter, rrn, record) ==
    LET amount == IF record.cbs # Absent THEN record.cbs[1].amount
                  ELSE IF record.switch # Absent THEN record.switch[1].amount
                  ELSE IF record.npci # Absent THEN record.npci[1].amount
                  ELSE 0
    IN IF amount <= 0 THEN Absent
       ELSE Some(NewVoucher(<<"SETTLE", counter>>, "SETTLEMENT", amount,
                            SettlementEntries(amount), rrn))

\* lines 252-272: record.get('status') raises on the list under
\* 'hanging_list', outside the try blocks, and ends the call
RECURSIVE VoucherLoop(_, _)
VoucherLoop(entries, acc) ==
    IF entries = <<>> THEN acc
    ELSE LET e == Head(entries)
             v == IF e.record = Absent THEN Absent
                  ELSE IF e.record[1].status = "MATCHED"
                  THEN _create_payment_voucher(acc.counter, e.key, e.record[1])
                  ELSE IF e.record[1].status \in {"PARTIAL_MATCH", "ORPHAN"}
                  THEN _create_settlement_voucher(acc.counter, e.key, e.record[1])
                  ELSE Absent
         IN IF e.record = Absent THEN [acc EXCEPT !.raised = TRUE]
            ELSE IF v = Absent THEN VoucherLoop(Tail(entries), acc)
            ELSE VoucherLoop(Tail(entries),
                             [acc EXCEPT !.made = Append(@, v[1]), !.counter = @ + 1])

generate_vouchers_from_recon(recon_results) ==
    LET acc == VoucherLoop(recon_results,
                           [made |-> <<>>, counter |-> voucher_counter, raised |-> FALSE])
    IN /\ voucher_counter' = acc.counter
       /\ settlement_file' = IF acc.raised THEN settlement_file ELSE Some(acc.made)
       /\ vouchers' = IF acc.raised THEN vouchers ELSE vouchers \o acc.made

Sum2(gl_entries, column) == gl_entries[1][column] + gl_entries[2][column]

\* lines 459-476: one voucher of the targets
PostOne(voucher) ==
    IF Abs(Sum2(voucher.gl_entries, "debit_amount")
           - Sum2(voucher.gl_entries, "credit_amount")) > Tolerance
    THEN [voucher EXCEPT !.status = "failed"]
    ELSE [voucher EXCEPT !.status = POSTED, !.posted_at = clock]

\* voucher_ids empty or None: every GENERATED voucher; else the listed ones
post_vouchers_to_gl(voucher_ids) ==
    LET Target(v) == IF voucher_ids # {} THEN v.voucher_id \in voucher_ids
                     ELSE v.status = GENERATED
    IN /\ vouchers' = [i \in 1..Len(vouchers) |->
                         IF Target(vouchers[i]) THEN PostOne(vouchers[i]) ELSE vouchers[i]]
       /\ lastCall' = "post"
       /\ UNCHANGED <<combined_df, results, voucher_counter, settlement_file>>
       /\ UNCHANGED <<clock, rbVars, fmVars, concVars, upiVars, hangVars, rlVars, ttumVars>>

(***************************************************************************)
(* run_reconciliation on the legacy path (app.py:617-704): reconcile,      *)
(* generate_report writes recon_output.json, then the vouchers; an error   *)
(* of generate_vouchers_from_recon is swallowed (line 702)                 *)
(***************************************************************************)
run_reconciliation ==
    LET res == reconcile(combined_df)
    IN /\ voucher_counter <= MaxVoucherCounter
       /\ IF res = Absent
          THEN /\ lastCall' = "reconcile_failed"
               /\ UNCHANGED <<results, vouchers, voucher_counter, settlement_file>>
          ELSE /\ results' = res
               /\ generate_vouchers_from_recon(res[1])
               /\ lastCall' = "reconcile"
       /\ UNCHANGED <<combined_df, clock, rbVars, fmVars, concVars, upiVars, hangVars,
                      rlVars, ttumVars>>

PostVouchers ==
    \E voucher_ids \in {{}} \cup {{vouchers[i].voucher_id} : i \in 1..Len(vouchers)} :
        post_vouchers_to_gl(voucher_ids)

(***************************************************************************)
(* Input of a legacy run: up to MaxLegacyRows rows                         *)
(***************************************************************************)
LegacyRows ==
    {LegacyRow("CBS", "r1", 50000, "d1", "", "00"),
     LegacyRow("SWITCH", "r1", 50000, "d1", "", "00"),
     LegacyRow("NPCI", "r1", 50000, "d1", "", "00"),
     LegacyRow("NPCI", "r1", 50000, "d1", "", "U30"),
     LegacyRow("SWITCH", "r1", 70000, "d2", "", "00"),
     LegacyRow("SWITCH", "r1", 50000, "d1", "CR", "00"),
     LegacyRow("OTHER", "r1", 70000, "d1", "", ""),
     LegacyRow("NPCI", "r2", 50000, "d1", "", "RB"),
     LegacyRow("CBS", "r2", 0, "d1", "", "00"),
     LegacyRow("SWITCH", "r2", 30000, "d1", "", "00"),
     LegacyRow("CBS", "", 50000, "d1", "", "00")}

InitLegacyRun ==
    /\ clock = 0
    /\ InitRunStore
    /\ InitForceMatch
    /\ InitWorkers
    /\ InitEngine
    /\ combined_df \in SeqsUpTo(LegacyRows, MaxLegacyRows)
    /\ InitSettlement
    /\ InitHanging
    /\ InitRateLimit
    /\ InitTtum

NextLegacy ==
    \/ run_reconciliation
    \/ PostVouchers
    \/ Tick

SpecLegacy == InitLegacyRun /\ [][NextLegacy]_vars

(***************************************************************************)
(* Claims about the legacy engine                                          *)
(***************************************************************************)
InputGroup(rrn) == RrnGroupOf(_combine_dataframes(combined_df), rrn)

InputRrns == {combined_df[i].RRN : i \in 1..Len(combined_df)} \ {""}

SourcesOf(group) == {group[i].Source : i \in 1..Len(group)}

\* the group is not set aside as hanging, duplicate or self-reversal before
\* _classify_record is called
ReachesClassify(rrn) ==
    /\ ~_detect_cutoff_reversal(InputGroup(rrn))
    /\ rrn \notin dup_rrns(_combine_dataframes(combined_df))
    /\ ~SelfReversal(InputGroup(rrn))

ShortForm(n, A, D) ==
    IF n = 3 THEN (IF A /\ D THEN "MATCHED" ELSE "MISMATCH")
    ELSE IF n = 2 THEN (IF A /\ D THEN "PARTIAL_MATCH" ELSE "PARTIAL_MISMATCH")
    ELSE "ORPHAN"

\* C12: every RRN group the legacy engine classifies ends with the status
\* the short-form rule gives for n = number of sources that reported the
\* RRN, A = all amounts equal and D = all dates equal.
C12_ShortFormRule ==
    results # Absent =>
        \A k \in 1..Len(results[1]) :
            LET e == results[1][k]
                group == InputGroup(e.key)
                n == Cardinality(SourcesOf(group))
                A == Cardinality({group[i].Amount : i \in 1..Len(group)}) = 1
                D == Cardinality({group[i].Tran_Date : i \in 1..Len(group)}) = 1
            IN (e.record # Absent /\ ReachesClassify(e.key) /\ n \in 1..3) =>
                   e.record[1].status = ShortForm(n, A, D)

Statuses ==
    {"MATCHED", "PARTIAL_MATCH", "PARTIAL_MISMATCH", "MISMATCH", "ORPHAN", "HANGING",
     "DUPLICATE", "FORCE_MATCHED", "EXCEPTION", "PROCESSING_ERROR", "UNKNOWN"}

\* C13: after a successful legacy reconcile the results hold exactly one
\* entry per distinct non-empty RRN of the input, each a Reconciliation
\* Record with one status, and no entry under any other key.
C13_OneRecordPerRrn ==
    results # Absent =>
        /\ \A rrn \in InputRrns :
              Cardinality({k \in 1..Len(results[1]) : results[1][k].key = rrn}) = 1
        /\ \A k \in 1..Len(results[1]) :
              /\ results[1][k].key \in InputRrns
              /\ results[1][k].record # Absent
              /\ results[1][k].record[1].status \in Statuses

\* C14: in every Reconciliation Record the number of non-null source fields
\* equals the number of distinct sources among the input rows of its RRN.
C14_SourceFieldCount ==
    results # Absent =>
        \A k \in 1..Len(results[1]) :
            results[1][k].record # Absent =>
                Cardinality({s \in SOURCES : results[1][k].record[1][s] # Absent})
                    = Cardinality(SourcesOf(InputGroup(results[1][k].key)))

(***************************************************************************)
(* Claims about reconcile and the vouchers                                 *)
(***************************************************************************)
SavedVouchers == IF settlement_file = Absent THEN <<>> ELSE settlement_file[1]

\* what a run persists: the status of every RRN and the vouchers with their ids
PersistedOutput ==
    <<IF results = Absent THEN {}
      ELSE {<<results[1][k].key, results[1][k].record>> : k \in 1..Len(results[1])},
      {<<SavedVouchers[i].voucher_id, SavedVouchers[i].voucher_type,
         SavedVouchers[i].rrn, SavedVouchers[i].amount>> : i \in 1..Len(SavedVouchers)}>>

\* C15: a reconcile that directly follows a reconcile of the same run leaves
\* the persisted output as it was: the same status for every RRN and the
\* same vouchers with the same ids.
C15_ReconcileIdempotent ==
    [][(lastCall = "reconcile" /\ lastCall' = "reconcile") =>
          PersistedOutput' = PersistedOutput]_vars

Balanced(v) ==
    Abs(Sum2(v.gl_entries, "debit_amount") - Sum2(v.gl_entries, "credit_amount"))
        <= Tolerance

\* C17: a voucher becomes POSTED only from GENERATED and only when balanced,
\* an unbalanced voucher never becomes POSTED, and a POSTED or FAILED voucher
\* is left alone by every later post_vouchers_to_gl call.
C17_PostOnlyFromGenerated ==
    [][\A i \in 1..Len(vouchers) :
          /\ (vouchers'[i].status = POSTED /\ vouchers'[i] # vouchers[i]) =>
                 (vouchers[i].status = GENERATED /\ Balanced(vouchers[i]))
          /\ vouchers[i].status \in {POSTED, "failed"} => vouchers'[i] = vouchers[i]
          /\ ~Balanced(vouchers[i]) => vouchers'[i].status # POSTED]_vars

\* C18: every voucher the settlement engine created, held in memory or saved
\* for the run, has debit and credit totals that agree within 0.01.
C18_VouchersBalanced ==
    /\ \A i \in 1..Len(vouchers) : Balanced(vouchers[i])
    /\ \A i \in 1..Len(SavedVouchers) : Balanced(SavedVouchers[i])

\* witness of C18: a payment voucher and a settlement voucher were created
\* and saved
C18_Witness ==
    /\ \E i \in 1..Len(SavedVouchers) : SavedVouchers[i].voucher_type = "PAYMENT"
    /\ \E i \in 1..Len(vouchers) :
          vouchers[i].voucher_type = "SETTLEMENT" /\ vouchers[i].amount > 0

\* C19: after a reconcile, the vouchers generated for the run hold exactly
\* one PAYMENT voucher for every RRN with status MATCHED, of the CBS amount,
\* debit Bank Account and credit Settlement Receivable, and no PAYMENT
\* voucher for an RRN with another status.
C19_PaymentPerMatched ==
    (lastCall = "reconcile" /\ results # Absent) =>
        \A k \in 1..Len(results[1]) :
            LET e == results[1][k]
                P == {i \in 1..Len(SavedVouchers) :
                        /\ SavedVouchers[i].voucher_type = "PAYMENT"
                        /\ SavedVouchers[i].rrn = e.key}
            IN e.record # Absent =>
                  IF e.record[1].status = "MATCHED"
                  THEN /\ Cardinality(P) = 1
                       /\ e.record[1].cbs # Absent
                       /\ \A i \in P :
                             /\ SavedVouchers[i].amount = e.record[1].cbs[1].amount
                             /\ SavedVouchers[i].gl_entries =
                                    <<GLEntry("bank_account", SavedVouchers[i].amount, 0),
                                      GLEntry("settlement_receivable", 0,
                                              SavedVouchers[i].amount)>>
                  ELSE P = {}

(***************************************************************************)
(* Cycle-wise rollback: frame of the state restoration                     *)
(***************************************************************************)
CycleCompleted(r) ==
    /\ reconOut[r] # Absent /\ reconOut'[r] # Absent /\ reconOut'[r] # reconOut[r]
    /\ reconOut'[r][1].summary.level = CYCLE_WISE
    /\ \E i \in 1..Len(history') : BecomesCompleted(i) /\ history'[i].run_id = r

TxnIds(ts) == [i \in 1..Len(ts) |-> ts[i].txn_id]

\* C21: a completed cycle-wise rollback for cycle c moves to unmatched
\* exactly the matched transactions whose cycle_id is c; the matched
\* transactions of every other cycle stay matched in their original order and
\* the transactions that were already unmatched stay unchanged.
C21_CycleFrame ==
    [][\A r \in RunIds :
          CycleCompleted(r) =>
              LET old == reconOut[r][1]
                  new == reconOut'[r][1]
                  c == new.summary.cycle_id
                  OfCycle(t) == t.cycle_id = c
                  Other(t) == t.cycle_id # c
                  n == Len(old.unmatched)
              IN /\ new.matched = SelectSeq(old.matched, Other)
                 /\ Len(new.unmatched) >= n
                 /\ SubSeq(new.unmatched, 1, n) = old.unmatched
                 /\ TxnIds(SubSeq(new.unmatched, n + 1, Len(new.unmatched)))
                        = TxnIds(SelectSeq(old.matched, OfCycle))]_vars

\* a cycle-wise rollback moved a transaction and left two of another cycle
C21_Witness ==
    /\ reconOut["R1"] # Absent
    /\ reconOut["R1"][1].summary.level = CYCLE_WISE
    /\ reconOut["R1"][1].summary.transactions_restored > 0
    /\ Len(reconOut["R1"][1].matched) = 2
    /\ \E i \in 1..Len(history) :
          history[i].level = CYCLE_WISE /\ history[i].status = COMPLETED

(***************************************************************************)
(* Accounting rollback without a voucher list                              *)
(***************************************************************************)
AccountingCompletedAll(r) ==
    /\ acct[r] # Absent /\ acct'[r] # Absent
    /\ \E reason \in Reasons, fl \in Failures(OutputFails) :
          accounting_rollback(r, reason, <<>>, FALSE, fl[1], fl[2])
    /\ \E i \in 1..Len(history') :
          /\ BecomesCompleted(i)
          /\ history'[i].level = ACCOUNTING /\ history'[i].run_id = r

\* C22: after a COMPLETED accounting rollback with no voucher list the
\* accounting output holds no voucher in 'voucher_generated'; every voucher
\* it reset is 'matched/pending' with empty gl_entries and its previous GL
\* entries kept under rollback_metadata; every other voucher is unchanged.
C22_ResetAllGenerated ==
    [][\A r \in RunIds :
          AccountingCompletedAll(r) =>
              LET old == acct[r][1].vouchers
                  new == acct'[r][1].vouchers
              IN /\ Len(new) = Len(old)
                 /\ \A i \in 1..Len(new) : new[i].status # "voucher_generated"
                 /\ \A i \in 1..Len(old) :
                       IF old[i].status = "voucher_generated"
                       THEN /\ new[i].voucher_id = old[i].voucher_id
                            /\ new[i].status = "matched/pending"
                            /\ new[i].gl_entries = <<>>
                            /\ new[i].rollback_metadata # Absent
                            /\ new[i].rollback_metadata[1].previous_gl_entries
                                  = old[i].gl_entries
                       ELSE new[i] = old[i]]_vars

\* a completed accounting rollback reset both generated vouchers and left
\* the posted one alone
C22_Witness ==
    /\ acct["R1"] # Absent
    /\ acct["R1"][1].accounting_status.vouchers_reset = 2
    /\ \E i \in 1..Len(acct["R1"][1].vouchers) :
          acct["R1"][1].vouchers[i].status = "posted"
    /\ \E i \in 1..Len(history) :
          history[i].level = ACCOUNTING /\ history[i].status = COMPLETED

(***************************************************************************)
(* Pass 4: duplicates of an RRN within one source                          *)
(***************************************************************************)
\* the row is one of several unprocessed rows of its source with its RRN
RepeatedRrn(df, i) ==
    /\ ~df[i].processed
    /\ df[i].RRN \notin {NaN, ""}
    /\ \E j \in 1..Len(df) : j # i /\ ~df[j].processed /\ df[j].RRN = df[i].RRN

\* the columns of a row flagged as a duplicate (the engine's label for it is
\* exception_type DOUBLE_DEBIT_CREDIT)
FlaggedDuplicate(r) ==
    /\ r.processed
    /\ r.match_status = "DUPLICATE" \/ r.exception_type \in {"DUPLICATE", "DOUBLE_DEBIT_CREDIT"}
    /\ r.ttum_required
    /\ r.ttum_type = "REVERSAL"

\* C27: in pass 4, for each of CBS, Switch and NPCI independently, when an
\* RRN occurs more than once among that source's rows, all rows of that RRN
\* in that source are marked as duplicates with ttum_required=true and
\* ttum_type=REVERSAL.
C27_DuplicatesInEverySource ==
    [][upc = "step4" =>
         \A src \in Sources : \A i \in 1..Len(rows[src]) :
             RepeatedRrn(rows[src], i) => FlaggedDuplicate(rows'[src][i])]_vars

(***************************************************************************)
(* Pass 3: settlement entries                                              *)
(***************************************************************************)
Opposite(a, b) ==
    \/ a \in {"DR", "D"} /\ b \in {"CR", "C"}
    \/ a \in {"CR", "C"} /\ b \in {"DR", "D"}

\* row j is an unprocessed CBS row, other than i, of the opposite orientation
\* and the identical amount
PairedWith(df, i, j) ==
    /\ j # i
    /\ ~df[j].processed
    /\ df[j].Amount = df[i].Amount
    /\ Opposite(df[i].Dr_Cr, df[j].Dr_Cr)

\* row i lacks an RRN, reaches the threshold and has a paired row
SettlementCandidate(df, i) ==
    /\ ~df[i].processed
    /\ df[i].RRN \in {NaN, ""}
    /\ df[i].Amount >= SettlementThreshold
    /\ \E j \in 1..Len(df) : PairedWith(df, i, j)

BecomesSettlement(i) ==
    /\ ~rows.cbs[i].processed
    /\ rows'.cbs[i].processed
    /\ rows'.cbs[i].exception_type = "SETTLEMENT_ENTRY"

\* C28: pass 3 marks an unprocessed CBS row that lacks an RRN as
\* MATCHED/SETTLEMENT_ENTRY only when its amount reaches the settlement
\* threshold and a different unprocessed CBS row of the opposite Dr_Cr
\* orientation and the identical amount exists; apart from that paired row
\* no other row is marked as a settlement entry.
C28_SettlementOnlyWhenPaired ==
    [][upc = "step3" =>
         \A i \in 1..Len(rows.cbs) :
             BecomesSettlement(i) =>
                 \/ SettlementCandidate(rows.cbs, i)
                 \/ \E k \in 1..Len(rows.cbs) :
                       /\ SettlementCandidate(rows.cbs, k)
                       /\ PairedWith(rows.cbs, k, i)]_vars

(***************************************************************************)
(* Pass 6: deemed accepted (RC = 'RB')                                     *)
(***************************************************************************)
IsDebit(r) == r.Dr_Cr \in {"DR", "D", "DEBIT"}

\* the CBS rows that are debits of the RRN
CbsDebitsOf(st, rrn) ==
    {i \in 1..Len(st.cbs) : rrn # NaN /\ st.cbs[i].RRN = rrn /\ IsDebit(st.cbs[i])}

MarkedAs(r, status, exception) ==
    r.processed /\ r.match_status = status /\ r.exception_type = exception

\* C26: in pass 6, for each unprocessed NPCI row with RC exactly 'RB': if the
\* CBS dataset holds a debit row for the same RRN, both rows are marked
\* MATCHED with TCC_102; only when CBS holds no debit row for that RRN is the
\* NPCI row marked UNMATCHED with TCC_103, ttum_required=true and
\* ttum_type=BENEFICIARY_CREDIT.
C26_DeemedAccepted ==
    [][upc = "step6" =>
         \A n \in 1..Len(rows.npci) :
             (~rows.npci[n].processed /\ rows.npci[n].RC = "RB") =>
                 LET debits == CbsDebitsOf(rows, rows.npci[n].RRN)
                     new == rows'.npci[n]
                 IN IF debits # {}
                    THEN /\ MarkedAs(new, "MATCHED", "TCC_102")
                         /\ \E i \in debits : MarkedAs(rows'.cbs[i], "MATCHED", "TCC_102")
                    ELSE /\ MarkedAs(new, "UNMATCHED", "TCC_103")
                         /\ new.ttum_required
                         /\ new.ttum_type = "BENEFICIARY_CREDIT"]_vars

(***************************************************************************)
(* Output of the UPI engine (upi_recon_engine.py:507-603) and the UPI      *)
(* branch of run_reconciliation (app.py:659-683)                           *)
(***************************************************************************)
AllPasses(st) ==
    ApplyMatrix(Step8(Step7(Step6(Step5(Step4(Step3(Step2(Step1(st)))))))))

CountStatus(df, status) ==
    Cardinality({i \in 1..Len(df) : df[i].match_status = status})

ExceptionEntry(source, r) ==
    [source |-> source, rrn |-> r.RRN, amount |-> r.Amount,
     exception_type |-> r.exception_type, ttum_required |-> r.ttum_required,
     ttum_type |-> r.ttum_type]

_get_exception_summary(st) ==
    LET HasException(r) == r.exception_type # None
        Of(source, df) ==
            LET sel == SelectSeq(df, HasException)
            IN [i \in 1..Len(sel) |-> ExceptionEntry(source, sel[i])]
    IN Of("CBS", st.cbs) \o Of("SWITCH", st.switch) \o Of("NPCI", st.npci)

_get_ttum_candidates(st) ==
    LET Required(r) == r.ttum_required
        Of(source, df) ==
            LET sel == SelectSeq(df, Required)
            IN [i \in 1..Len(sel) |->
                  [source |-> source, rrn |-> sel[i].RRN, amount |-> sel[i].Amount,
                   ttum_type |-> sel[i].ttum_type,
                   exception_type |-> sel[i].exception_type]]
    IN Of("CBS", st.cbs) \o Of("NPCI", st.npci)

_generate_reconciliation_results(st, run_id) ==
    [run_id |-> run_id,
     summary |-> [total_cbs |-> Len(st.cbs), total_switch |-> Len(st.switch),
                  total_npci |-> Len(st.npci),
                  matched_cbs |-> CountStatus(st.cbs, "MATCHED"),
                  matched_switch |-> CountStatus(st.switch, "MATCHED"),
                  matched_npci |-> CountStatus(st.npci, "MATCHED"),
                  unmatched_cbs |-> CountStatus(st.cbs, "UNMATCHED"),
                  unmatched_switch |-> CountStatus(st.switch, "UNMATCHED"),
                  unmatched_npci |-> CountStatus(st.npci, "UNMATCHED")],
     exceptions |-> _get_exception_summary(st),
     ttum_candidates |-> _get_ttum_candidates(st)]

\* the run's UPI files are reconciled and the results are dumped to
\* OUTPUT_DIR/<run>/recon_output.json; a failed dump is logged and the run
\* is still reported completed (app.py:665-683)
run_reconciliation_upi(run_id, saveFails) ==
    /\ run_id \in runFolders
    /\ LET st == AllPasses([cbs |-> [i \in 1..Len(rows.cbs) |-> Fresh(rows.cbs[i])],
                            switch |-> [i \in 1..Len(rows.switch) |-> Fresh(rows.switch[i])],
                            npci |-> [i \in 1..Len(rows.npci) |-> Fresh(rows.npci[i])]])
       IN /\ rows' = st
          /\ upc' = "done"
          /\ reconOut' = IF saveFails THEN reconOut
                         ELSE [reconOut EXCEPT ![run_id] =
                                 Some(_generate_reconciliation_results(st, run_id))]
    /\ lastCall' = "reconcile_upi"
    /\ UNCHANGED <<clock, history, runFolders, files, metadata, acct, backups, ttumDir,
                   downloaded, fmVars, concVars, combined_df, results, vouchers,
                   voucher_counter, settlement_file, hangVars, rlVars, ttumVars>>

(***************************************************************************)
(* whole-process rollback (app.py:1659-1660, 2501-2516): both endpoints    *)
(* call rollback_manager.whole_process_rollback, and RollbackLevel has no  *)
(* WHOLE_PROCESS member (rollback_manager.py:17-22); RollbackManager       *)
(* defines no such method, so the call raises and the request is answered  *)
(* with an error without touching any file                                 *)
(***************************************************************************)
whole_process_rollback(run_id, reason) ==
    /\ lastCall' = "whole_process_rollback"
    /\ UNCHANGED <<clock, rbVars, fmVars, concVars, upiVars, combined_df, results,
                   vouchers, voucher_counter, settlement_file, hangVars, rlVars, ttumVars>>

(***************************************************************************)
(* A run from upload to rollback: R1 is uploaded and not yet reconciled;   *)
(* its files are reconciled by the UPI engine or by the legacy engine,     *)
(* whichever _detect_upi_reconciliation selects (app.py:567-583)           *)
(***************************************************************************)
TheRun == "R1"

RunUpiInputs ==
    {[cbs |-> <<Row("u1", "r1", Morning, 500, "DR", NaN)>>,
      switch |-> <<Row("u1", "r1", Morning, 500, "DR", "00")>>,
      npci |-> <<Row("u1", "r1", Morning, 500, NaN, "00")>>],
     [cbs |-> <<Row("u1", "r1", Morning, 500, "DR", NaN),
                Row("u2", "r2", Morning, 2000, "DR", NaN)>>,
      switch |-> <<Row("u1", "r1", Morning, 500, "DR", "00")>>,
      npci |-> <<Row("u1", "r1", Morning, 500, NaN, "00"),
                 Row("u2", "r2", Morning, 2000, NaN, "RB")>>],
     [cbs |-> <<>>, switch |-> <<>>,
      npci |-> <<Row("u2", "r2", Morning, 500, NaN, "U30")>>]}

RunLegacyInputs ==
    {<<LegacyRow("CBS", "r1", 50000, "d1", "", "00"),
       LegacyRow("SWITCH", "r1", 50000, "d1", "", "00"),
       LegacyRow("NPCI", "r1", 50000, "d1", "", "00")>>,
     <<LegacyRow("CBS", "r1", 50000, "d1", "", "00"),
       LegacyRow("SWITCH", "r2", 30000, "d1", "", "00")>>,
     <<>>}

InitRun ==
    /\ clock = 0
    /\ history = <<>>
    /\ runFolders = {TheRun}
    /\ files = [r \in RunIds |-> IF r = TheRun THEN {"cbs.csv", "bad.csv"} ELSE {}]
    /\ metadata = [r \in RunIds |-> IF r = TheRun THEN Some(InitMeta) ELSE Absent]
    /\ reconOut = [r \in RunIds |-> Absent]
    /\ acct = [r \in RunIds |-> Absent]
    /\ backups = [r \in RunIds |-> {}]
    /\ ttumDir = [r \in RunIds |-> FALSE]
    /\ downloaded = [r \in RunIds |-> FALSE]
    /\ proposals = [r \in RunIds |-> <<>>]
    /\ reconUp = [r \in RunIds |-> Absent]
    /\ lastOp = Answer("init", "", NoId, "")
    /\ InitWorkers
    /\ rows \in RunUpiInputs
    /\ upc = "idle"
    /\ combined_df \in RunLegacyInputs
    /\ InitSettlement
    /\ InitHanging
    /\ InitRateLimit
    /\ InitTtum

RunReconciliation ==
    \/ run_reconciliation
    \/ \E saveFails \in BOOLEAN : run_reconciliation_upi(TheRun, saveFails)

WholeProcessRollback ==
    \E run_id \in RunIds : whole_process_rollback(run_id, "CBS upload failure")

NextRun ==
    \/ RunReconciliation
    \/ MidReconRollback
    \/ AccountingRollback
    \/ WholeProcessRollback
    \/ Tick

SpecRun == InitRun /\ [][NextRun]_vars

(***************************************************************************)
(* Rollback of a run that reconcile produced                               *)
(***************************************************************************)
LegacyMatched ==
    IF results = Absent THEN {}
    ELSE {k \in 1..Len(results[1]) :
             /\ results[1][k].record # Absent
             /\ results[1][k].record[1].status = "MATCHED"}

\* reconcile completed for the run on the legacy path / on the UPI path
LegacyReconciled == lastCall = "reconcile" /\ results # Absent

UpiReconciled == lastCall = "reconcile_upi" /\ upc = "done" /\ reconOut[TheRun] # Absent

\* recon_output.json still holds what the UPI engine wrote
IsUpiOutput(data) ==
    /\ "ttum_candidates" \in DOMAIN data
    /\ "matched_cbs" \in DOMAIN data.summary

UpiMatched(data) ==
    data.summary.matched_cbs + data.summary.matched_switch + data.summary.matched_npci

Idle(r) == ~HasInProgress(history, r)

VouchersGenerated == LegacyReconciled /\ Len(SavedVouchers) > 0

\* C23: for a run that reconcile completed and for which the settlement
\* engine generated at least one voucher, with TTUM not yet downloaded, an
\* accounting rollback with a non-empty reason is accepted, and it resets at
\* least one voucher, clears its GL entries and writes a backup.
C23_AccountingRollbackOfRun ==
    /\ []((VouchersGenerated /\ ~downloaded[TheRun] /\ Idle(TheRun)) =>
             _validate_rollback_allowed(TheRun, ACCOUNTING))
    /\ [][(/\ VouchersGenerated /\ ~downloaded[TheRun] /\ Idle(TheRun)
           /\ accounting_rollback(TheRun, "CBS upload failure", <<>>, FALSE,
                                  "none", FALSE)) =>
             /\ acct'[TheRun] # Absent
             /\ acct'[TheRun][1].accounting_status.vouchers_reset > 0
             /\ \E i \in 1..Len(acct'[TheRun][1].vouchers) :
                   /\ acct'[TheRun][1].vouchers[i].status = "matched/pending"
                   /\ acct'[TheRun][1].vouchers[i].gl_entries = <<>>
             /\ \E b \in backups'[TheRun] : b.acct = acct[TheRun]]_vars

\* C24: rollback handles the recon_output.json that reconcile itself writes,
\* in either format: for a reconciled run that has matched transactions a
\* mid-recon rollback with no transaction list is accepted and moves all of
\* them to unmatched, so transactions_restored equals the number of matched
\* records of the run.
C24_RollbackReadsReconcileOutput ==
    /\ []((LegacyReconciled /\ LegacyMatched # {} /\ Idle(TheRun)) =>
             _validate_rollback_allowed(TheRun, MID_RECON))
    /\ []((UpiReconciled /\ Idle(TheRun)) =>
             _validate_rollback_allowed(TheRun, MID_RECON))
    /\ [][(/\ UpiReconciled
           /\ IsUpiOutput(reconOut[TheRun][1])
           /\ UpiMatched(reconOut[TheRun][1]) > 0
           /\ MidReconCompleted(TheRun)) =>
             /\ reconOut'[TheRun][1].summary.transactions_restored
                   = UpiMatched(reconOut[TheRun][1])
             /\ Len(reconOut'[TheRun][1].unmatched) >= UpiMatched(reconOut[TheRun][1])]_vars

\* C25: a whole-process rollback of an existing run completes with its
\* history record COMPLETED and removes the run's output artifacts (so that
\* re-uploading the same inputs and reconciling reproduces the statuses).
C25_WholeProcessCompletes ==
    [][(lastCall' = "whole_process_rollback" /\ runFolders # {}) =>
          \E i \in 1..Len(history') :
              /\ BecomesCompleted(i)
              /\ history'[i].run_id \in runFolders
              /\ reconOut'[history'[i].run_id] = Absent
              /\ acct'[history'[i].run_id] = Absent]_vars

(***************************************************************************)
(* generate_report over several runs (recon_engine.py:465-730): the run's  *)
(* recon_output.json, the cross-run flagging against the next run, the     *)
(* run's hanging_state.json and its hanging.csv                            *)
(***************************************************************************)
HangRuns == {"RUN_1", "RUN_2", "RUN_3"}

\* sorted(runs): the RUN_* folders of UPLOAD_DIR in lexicographic order
RunIdOrder == <<"RUN_1", "RUN_2", "RUN_3">>

SortedRuns(folders) ==
    LET Uploaded(r) == r \in folders
    IN SelectSeq(RunIdOrder, Uploaded)

IndexOf(runs, run_id) == CHOOSE i \in 1..Len(runs) : runs[i] = run_id

\* lines 636-642: the recon_output.json of the run after run_id, if both exist
NextRecon(run_id) ==
    LET runs == SortedRuns(runFolders)
    IN IF run_id \notin runFolders THEN Absent
       ELSE IF IndexOf(runs, run_id) + 1 > Len(runs) THEN Absent
       ELSE reconUp[runs[IndexOf(runs, run_id) + 1]]

\* lines 644-651: the keys of the next run whose record has an NPCI leg with
\* a response code that begins with RB
rev_rrns(next_data) ==
    {next_data[k].key : k \in {k \in 1..Len(next_data) :
        /\ next_data[k].record # Absent
        /\ next_data[k].record[1].npci # Absent
        /\ StartsWithRB(next_data[k].record[1].npci[1].rc)}}

HasKey(data, key) == \E i \in 1..Len(data) : data[i].key = key

\* results.get('hanging_list', [])
HangingList(data) ==
    IF HasKey(data, "hanging_list")
    THEN data[CHOOSE i \in 1..Len(data) : data[i].key = "hanging_list"].list
    ELSE <<>>

InSeq(x, seq) == \E i \in 1..Len(seq) : seq[i] = x

FlagOneMut(data, rrn) ==
    LET marked == [i \in 1..Len(data) |->
                     IF data[i].key = rrn
                     THEN [data[i] EXCEPT !.record =
                             Some(Put(@[1], "hanging_reason",
                                      "declined_then_reversed_next_cycle"))]
                     ELSE data[i]]
        listed == IF HasKey(marked, "hanging_list") THEN marked
                  ELSE Append(marked, Entry("hanging_list", Absent, <<>>))
    IN [i \in 1..Len(listed) |->
          IF listed[i].key = "hanging_list" /\ ~InSeq(rrn, listed[i].list)
          THEN [listed[i] EXCEPT !.list = Append(@, rrn)]
          ELSE listed[i]]

\* lines 658-666: one key of list(results.keys())
FlagOne(data, rrn) ==
    LET marked == [i \in 1..Len(data) |->
                     IF data[i].key = rrn
                     THEN [data[i] EXCEPT !.record =
                             Some(Put([@[1] EXCEPT !.status = "HANGING"], "hanging_reason",
                                      "declined_then_reversed_next_cycle"))]
                     ELSE data[i]]
        listed == IF HasKey(marked, "hanging_list") THEN marked
                  ELSE Append(marked, Entry("hanging_list", Absent, <<>>))
    IN [i \in 1..Len(listed) |->
          IF listed[i].key = "hanging_list" /\ ~InSeq(rrn, listed[i].list)
          THEN [listed[i] EXCEPT !.list = Append(@, rrn)]
          ELSE listed[i]]

RECURSIVE FlagLoop(_, _, _, _)
FlagLoop(data, keys, k, rev) ==
    IF k > Len(keys) THEN data
    ELSE IF keys[k].key \in rev /\ keys[k].record # Absent
    THEN FlagLoop(FlagOne(data, keys[k].key), keys, k + 1, rev)
    ELSE FlagLoop(data, keys, k + 1, rev)

\* lines 626-670: the results dict after the cross-run flagging
FlagHanging(data, run_id) ==
    IF NextRecon(run_id) = Absent THEN data
    ELSE FlagLoop(data, data, 1, rev_rrns(NextRecon(run_id)[1]))

\* lines 691-699: the up to two runs just before run_id
prev_runs(run_id) ==
    LET runs == SortedRuns(runFolders)
        idx == IndexOf(runs, run_id)
    IN {runs[i] : i \in {idx - 1, idx - 2} \cap (1..Len(runs))}

WaitCycles == 2

final_hangingsMut(run_id, hanging_rrns) ==
    LET count(rrn) == Cardinality({pr \in prev_runs(run_id) :
                          /\ hanging_state[pr] # Absent
                          /\ InSeq(rrn, hanging_state[pr][1])})
        Final(rrn) == count(rrn) >= WaitCycles - 1
    IN SelectSeq(hanging_rrns, Final)

\* lines 701-716: the hanging RRNs both previous runs list in their
\* hanging_state.json
final_hangings(run_id, hanging_rrns) ==
    LET count(rrn) == Cardinality({pr \in prev_runs(run_id) :
                          /\ hanging_state[pr] # Absent
                          /\ InSeq(rrn, hanging_state[pr][1])})
        Final(rrn) == count(rrn) >= WaitCycles
    IN SelectSeq(hanging_rrns, Final)

\* generate_report(results, run_folder, run_id): recon_output.json is dumped
\* first (lines 511-517), then the dict is flagged in memory, then
\* hanging_state.json is written, and hanging.csv only when some RRN is final
generate_report(data, run_id) ==
    LET out == FlagHanging(data, run_id)
        hanging_rrns == HangingList(out)
        final == final_hangings(run_id, hanging_rrns)
    IN /\ run_id \in runFolders
       /\ reconUp' = [reconUp EXCEPT ![run_id] = Some(data)]
       /\ flagged' = Some(out)
       /\ hanging_state' = [hanging_state EXCEPT ![run_id] = Some(hanging_rrns)]
       /\ hanging_csv' = IF final # <<>> THEN [hanging_csv EXCEPT ![run_id] = Some(final)]
                         ELSE hanging_csv
       /\ lastCall' = run_id
       /\ UNCHANGED <<clock, rbVars, proposals, lastOp, concVars, upiVars, combined_df,
                      results, vouchers, voucher_counter, settlement_file, rlVars,
                      ttumVars>>

\* an upload creates the folder of the next run id
upload_run(run_id) ==
    /\ run_id \notin runFolders
    /\ \A i, j \in 1..Len(RunIdOrder) :
          i < j /\ RunIdOrder[j] = run_id => RunIdOrder[i] \in runFolders
    /\ runFolders' = runFolders \cup {run_id}
    /\ lastCall' = "upload"
    /\ UNCHANGED <<clock, history, files, metadata, reconOut, acct, backups, ttumDir,
                   downloaded, fmVars, concVars, upiVars, combined_df, results, vouchers,
                   voucher_counter, settlement_file, hangVars, rlVars, ttumVars>>

\* the files a run may hold: a reversal of r1, a decline of r1, two orphans,
\* a reversal of r2 next to r1
HangInputs ==
    {<<LegacyRow("NPCI", "r1", 50000, "d1", "", "RB")>>,
     <<LegacyRow("CBS", "r1", 50000, "d1", "", "00"),
       LegacyRow("NPCI", "r1", 50000, "d1", "", "U30")>>,
     <<LegacyRow("CBS", "r1", 50000, "d1", "", "00"),
       LegacyRow("SWITCH", "r2", 30000, "d1", "", "00")>>,
     <<LegacyRow("CBS", "r1", 50000, "d1", "", "00"),
       LegacyRow("NPCI", "r2", 50000, "d1", "", "RB")>>}

InitHang ==
    /\ clock = 0
    /\ history = <<>>
    /\ runFolders = {"RUN_1"}
    /\ files = [r \in RunIds |-> {}]
    /\ metadata = [r \in RunIds |-> Absent]
    /\ reconOut = [r \in RunIds |-> Absent]
    /\ acct = [r \in RunIds |-> Absent]
    /\ backups = [r \in RunIds |-> {}]
    /\ ttumDir = [r \in RunIds |-> FALSE]
    /\ downloaded = [r \in RunIds |-> FALSE]
    /\ proposals = [r \in RunIds |-> <<>>]
    /\ reconUp = [r \in HangRuns |-> Absent]
    /\ lastOp = Answer("init", "", NoId, "")
    /\ InitWorkers
    /\ InitEngine
    /\ combined_df = <<>>
    /\ InitSettlement
    /\ hanging_state = [r \in HangRuns |-> Absent]
    /\ hanging_csv = [r \in HangRuns |-> Absent]
    /\ flagged = Absent
    /\ InitRateLimit
    /\ InitTtum

UploadRun == \E run_id \in HangRuns : upload_run(run_id)

GenerateReport ==
    \E run_id \in HangRuns, dataframes \in HangInputs :
        generate_report(reconcile(dataframes)[1], run_id)

NextHang ==
    \/ UploadRun
    \/ GenerateReport

SpecHang == InitHang /\ [][NextHang]_vars

(***************************************************************************)
(* Claims about the hanging reports                                        *)
(***************************************************************************)
\* the run at position idx - back of the sorted run folders holds rrn in its
\* hanging_state.json
ListedBefore(r, back, rrn) ==
    LET runs == SortedRuns(runFolders)
        idx == IndexOf(runs, r)
    IN /\ idx - back >= 1
       /\ hanging_state[runs[idx - back]] # Absent
       /\ InSeq(rrn, hanging_state[runs[idx - back]][1])

\* C29: whenever a run's hanging.csv is written, every RRN in it is in the
\* hanging list the run has just produced and in the hanging_state.json of
\* each of the two runs right before it in run_id order; a run with fewer
\* than two earlier runs never gets a hanging.csv
C29_FinalHangingAfterTwoRuns ==
    /\ [][\A r \in HangRuns : hanging_csv'[r] # hanging_csv[r] =>
            /\ hanging_csv'[r] # Absent
            /\ \A i \in 1..Len(hanging_csv'[r][1]) :
                  /\ InSeq(hanging_csv'[r][1][i], hanging_state'[r][1])
                  /\ InSeq(hanging_csv'[r][1][i], HangingList(flagged'[1]))
                  /\ ListedBefore(r, 1, hanging_csv'[r][1][i])
                  /\ ListedBefore(r, 2, hanging_csv'[r][1][i])]_vars
    /\ [](\A r \in HangRuns :
            (r \in runFolders /\ IndexOf(SortedRuns(runFolders), r) < 3)
                => hanging_csv[r] = Absent)

\* the third run has a hanging.csv that names r1, which its two predecessors
\* list as hanging
C29_Witness ==
    /\ hanging_csv["RUN_3"] = Some(<<"r1">>)
    /\ hanging_state["RUN_1"] # Absent /\ InSeq("r1", hanging_state["RUN_1"][1])
    /\ hanging_state["RUN_2"] # Absent /\ InSeq("r1", hanging_state["RUN_2"][1])

\* the recon_output.json of the run after r holds rrn with an NPCI response
\* code that begins with RB
ReversedInNextRun(r, rrn) ==
    /\ NextRecon(r) # Absent
    /\ \E k \in 1..Len(NextRecon(r)[1]) :
          LET e == NextRecon(r)[1][k]
          IN /\ e.key = rrn
             /\ e.record # Absent
             /\ e.record[1].npci # Absent
             /\ e.record[1].npci[1].rc \in {"RB", "RB1"}

RecordOf(data, rrn) ==
    data[CHOOSE i \in 1..Len(data) : data[i].key = rrn].record[1]

\* the run has a record of rrn
HasRecord(data, rrn) ==
    \E i \in 1..Len(data) : data[i].key = rrn /\ data[i].record # Absent

C37_StateAgreesWithOutput ==
    \A r \in HangRuns :
        (hanging_state[r] # Absent /\ reconUp[r] # Absent) =>
            \A i \in 1..Len(hanging_state[r][1]) :
                /\ HasRecord(reconUp[r][1], hanging_state[r][1][i])
                /\ RecordOf(reconUp[r][1], hanging_state[r][1][i]).status = "HANGING"

(***************************************************************************)
(* Claims about the hanging and TCC rules of the legacy engine             *)
(***************************************************************************)
\* C38: after a legacy reconcile, an RRN whose rows come from CBS and from
\* Switch but not from NPCI has status HANGING and is in the hanging list of
\* the results
C38_CbsSwitchWithoutNpciHangs ==
    results # Absent =>
        \A rrn \in InputRrns :
            ({"CBS", "SWITCH"} \subseteq SourcesOf(InputGroup(rrn))
                 /\ "NPCI" \notin SourcesOf(InputGroup(rrn)))
            => /\ HasRecord(results[1], rrn)
               /\ RecordOf(results[1], rrn).status = "HANGING"
               /\ InSeq(rrn, HangingList(results[1]))

\* C39: after a legacy reconcile, every record whose NPCI response code
\* starts with RB carries tcc = TCC_102 when its CBS leg is a credit, and
\* otherwise tcc = TCC_103 together with needs_ttum = true
C39_ReversalReachesTccRule ==
    results # Absent =>
        \A k \in 1..Len(results[1]) :
            LET e == results[1][k]
            IN (/\ e.record # Absent
                /\ e.record[1].npci # Absent
                /\ StartsWithRB(e.record[1].npci[1].rc))
               => IF e.record[1].cbs # Absent /\ StartsWithC(e.record[1].cbs[1].dr_cr)
                  THEN Get(e.record[1], "tcc", "") = "TCC_102"
                  ELSE /\ Get(e.record[1], "tcc", "") = "TCC_103"
                       /\ Get(e.record[1], "needs_ttum", FALSE) = TRUE

(***************************************************************************)
(* The engine's lists matched_records, partial_match_records,              *)
(* orphan_records and exceptions (recon_engine.py:204-257, 307-387): how   *)
(* often the RRN of a group is appended to each of them during a reconcile *)
(***************************************************************************)
NoList == [matched |-> 0, partial |-> 0, orphan |-> 0, exceptions |-> 0]

\* the appends of _classify_record
ClassifyLists(record, sources) ==
    LET present == {s \in SOURCES : record[s] # Absent}
        amounts_match == Cardinality({record[s][1].amount : s \in present}) = 1
        dates_match == Cardinality({record[s][1].date : s \in present}) = 1
        num_sources == Cardinality(sources)
        first == IF num_sources = 3
                 THEN (IF amounts_match /\ dates_match
                       THEN [NoList EXCEPT !.matched = 1]
                       ELSE [NoList EXCEPT !.exceptions = 1])
                 ELSE IF num_sources = 2
                 THEN (IF amounts_match /\ dates_match
                       THEN [NoList EXCEPT !.partial = 1]
                       ELSE [NoList EXCEPT !.exceptions = 1])
                 ELSE IF num_sources = 1 THEN [NoList EXCEPT !.orphan = 1]
                 ELSE [NoList EXCEPT !.exceptions = 1]
        gl == IF record.cbs # Absent THEN record.cbs
              ELSE IF record.switch # Absent THEN record.switch
              ELSE record.npci
        settled == /\ record.ntsl # Absent /\ gl # Absent
                   /\ Abs(record.ntsl[1].amount - gl[1].amount) < Tolerance
        second == IF settled /\ first.matched = 0 THEN [first EXCEPT !.matched = 1]
                  ELSE first
        failed == /\ record.npci # Absent /\ record.npci[1].rc \notin success_markers
                  /\ record.cbs # Absent /\ record.cbs[1].rc \in success_markers
    IN IF failed THEN [second EXCEPT !.exceptions = @ + 1] ELSE second

\* one iteration of the loop over the groups
GroupLists(df, rrn) ==
    LET group == RrnGroupOf(df, rrn)
        sources == {group[i].Source : i \in 1..Len(group)}
        record == _populate_record_by_source(_create_record_structure, group)
    IN IF _detect_cutoff_reversal(group) THEN NoList
       ELSE IF rrn \in dup_rrns(df) THEN [NoList EXCEPT !.exceptions = 1]
       ELSE IF SelfReversal(group) THEN [NoList EXCEPT !.matched = 1]
       ELSE ClassifyLists(record, sources)

ListNames == {"matched", "partial", "orphan", "exceptions"}

RECURSIVE SumOver(_, _)
SumOver(f, S) ==
    IF S = {} THEN 0
    ELSE LET x == CHOOSE x \in S : TRUE IN f[x] + SumOver(f, S \ {x})

\* the number of entries of the four lists that name rrn
TimesListed(rrn) == SumOver(GroupLists(_combine_dataframes(combined_df), rrn), ListNames)

\* len(matched_records) + len(partial_match_records) + len(orphan_records)
\* + len(exceptions), line 485 of generate_report
ValidationTotal == SumOver([rrn \in InputRrns |-> TimesListed(rrn)], InputRrns)

\* C40: after a legacy reconcile every RRN is named by at most one entry of
\* the four lists, and the validation total of the report equals the number
\* of RRNs processed
C40_ListsPartitionTheRrns ==
    results # Absent =>
        /\ \A rrn \in InputRrns : TimesListed(rrn) <= 1
        /\ ValidationTotal = Cardinality(InputRrns)

(***************************************************************************)
(* Claims about repeated approvals and rollback ids                        *)
(***************************************************************************)
\* C33: a proposal whose status is no longer 'proposed' is left as it is by
\* every later request: it is not approved again, and its checker and
\* approval time stay as recorded
C33_ApproveOnlyProposed ==
    [][\A r \in RunIds : \A i \in 1..Len(proposals[r]) :
          proposals[r][i].status # "proposed" =>
              /\ i <= Len(proposals'[r])
              /\ proposals'[r][i] = proposals[r][i]]_vars

\* C34: no two records of the rollback history carry the same rollback_id,
\* also when two rollbacks of one run are logged within the same second
C34_DistinctRollbackIds ==
    \A i, j \in 1..Len(history) :
        history[i].rollback_id = history[j].rollback_id => i = j

(***************************************************************************)
(* Mid-recon rollback: conservation of the transactions                    *)
(***************************************************************************)
\* how many entries of matched and unmatched together carry txn_id x
Occurrences(data, x) ==
    Cardinality({i \in 1..Len(data.matched) : data.matched[i].txn_id = x})
      + Cardinality({i \in 1..Len(data.unmatched) : data.unmatched[i].txn_id = x})

AllTxnIds(data) ==
    {data.matched[i].txn_id : i \in 1..Len(data.matched)}
      \cup {data.unmatched[i].txn_id : i \in 1..Len(data.unmatched)}

\* C35: a completed mid-recon rollback leaves every transaction exactly as
\* often in matched plus unmatched as it was before, whatever the list of
\* affected transactions
C35_MidReconConservesTransactions ==
    [][\A r \in RunIds :
          MidReconCompleted(r) =>
              \A x \in AllTxnIds(reconOut[r][1]) \cup AllTxnIds(reconOut'[r][1]) :
                  Occurrences(reconOut'[r][1], x) = Occurrences(reconOut[r][1], x)]_vars

(***************************************************************************)
(* Pass 5: how often a row takes part in a match                           *)
(***************************************************************************)
\* C36: in pass 5 no CBS row and no Switch row is handed to two three-way
\* matches, and a CBS or Switch row that the pass marks MATCHED is a row
\* selected for one of its matches
C36_RowMatchedAtMostOnce ==
    [][(upc = "step5" /\ upc' = "step6") =>
          LET pairs == Step5Pairs(rows)
          IN /\ \A i, j \in 1..Len(pairs) :
                    i # j => (pairs[i][1] # pairs[j][1] /\ pairs[i][2] # pairs[j][2])
             /\ \A c \in 1..Len(rows.cbs) :
                    (rows'.cbs[c] # rows.cbs[c] /\ rows'.cbs[c].match_status = "MATCHED")
                        => \E i \in 1..Len(pairs) : pairs[i][1] = c
             /\ \A s \in 1..Len(rows.switch) :
                    (rows'.switch[s] # rows.switch[s]
                         /\ rows'.switch[s].match_status = "MATCHED")
                        => \E i \in 1..Len(pairs) : pairs[i][2] = s]_vars

(***************************************************************************)
(* Rate limiter (app.py:115-135): rate_limiter has no await, so a request  *)
(* passes it in one step of the event loop                                 *)
(***************************************************************************)
RATE_LIMIT_WINDOW == 60

\* int(os.getenv('RATE_LIMIT_MAX', '10')): the limit the deployment sets
RATE_LIMIT_MAX == 3

MaxRlRequests == 7

\* the instants, in seconds, at which requests arrive
Instants == <<0, 1, 60, 61, 121>>

_cleanup_timestamps(timestamps, now) ==
    LET Kept(t) == t >= now - RATE_LIMIT_WINDOW
    IN SelectSeq(timestamps, Kept)

AtLimitMut(timestamps) == Len(timestamps) > RATE_LIMIT_MAX

AtLimit(timestamps) == Len(timestamps) >= RATE_LIMIT_MAX

Request(key, time, admitted) == [key |-> key, time |-> time, admitted |-> admitted]

\* a rejected request raises 429 before RATE_LIMIT[key] is assigned
rate_limiter(key) ==
    LET timestamps == _cleanup_timestamps(RATE_LIMIT[key], clock)
    IN /\ Len(rl_log) < MaxRlRequests
       /\ IF AtLimit(timestamps)
          THEN /\ RATE_LIMIT' = RATE_LIMIT
               /\ rl_log' = Append(rl_log, Request(key, clock, FALSE))
          ELSE /\ RATE_LIMIT' = [RATE_LIMIT EXCEPT ![key] = Append(timestamps, clock)]
               /\ rl_log' = Append(rl_log, Request(key, clock, TRUE))
       /\ UNCHANGED <<clock, rbVars, fmVars, concVars, upiVars, legVars, hangVars, ttumVars>>

\* time.time() moves on to the next instant
TimePasses ==
    /\ \E i \in 1..(Len(Instants) - 1) : clock = Instants[i] /\ clock' = Instants[i + 1]
    /\ UNCHANGED <<rbVars, fmVars, concVars, upiVars, legVars, hangVars, rlVars, ttumVars>>

RateLimited == \E key \in ClientKeys : rate_limiter(key)

NextRl ==
    \/ RateLimited
    \/ TimePasses

SpecRl == Init /\ [][NextRl]_vars

(***************************************************************************)
(* Claims about the rate limiter                                           *)
(***************************************************************************)
\* the requests of key that were admitted at an instant from lo to hi
AdmittedBetween(log, key, lo, hi) ==
    {j \in 1..Len(log) :
        /\ log[j].key = key /\ log[j].admitted
        /\ lo <= log[j].time /\ log[j].time <= hi}

\* C31: for every client key no window of 60 seconds holds more admitted
\* requests than RATE_LIMIT_MAX; a request is admitted exactly when fewer
\* than RATE_LIMIT_MAX requests of its key were admitted in the 60 seconds
\* before it, so rejected requests do not count and admission resumes as soon
\* as the window has room; a rejected request leaves RATE_LIMIT as it was
C31_RateLimit ==
    /\ [](\A i \in 1..Len(rl_log) :
            Cardinality(AdmittedBetween(rl_log, rl_log[i].key, rl_log[i].time,
                                        rl_log[i].time + RATE_LIMIT_WINDOW))
                <= RATE_LIMIT_MAX)
    /\ [][Len(rl_log') = Len(rl_log) + 1 =>
            LET e == rl_log'[Len(rl_log')]
                before == AdmittedBetween(rl_log, e.key, e.time - RATE_LIMIT_WINDOW, e.time)
            IN /\ e.admitted <=> Cardinality(before) < RATE_LIMIT_MAX
               /\ ~e.admitted => RATE_LIMIT' = RATE_LIMIT]_vars

\* a key reached the limit, had a request rejected, had one still rejected
\* exactly 60 seconds after its first request, and was admitted again later
C31_Witness ==
    \E i, j, k, l \in 1..Len(rl_log) :
        /\ i < j /\ j < k /\ k < l
        /\ rl_log[i].key = rl_log[j].key /\ rl_log[j].key = rl_log[k].key
        /\ rl_log[k].key = rl_log[l].key
        /\ rl_log[i].admitted /\ ~rl_log[j].admitted /\ ~rl_log[k].admitted
        /\ rl_log[k].time = rl_log[i].time + RATE_LIMIT_WINDOW
        /\ rl_log[l].admitted

(***************************************************************************)
(* generate_ttum_files (settlement_engine.py:513-865): the rows of the six *)
(* TTUM category files and of Annexure-IV                                  *)
(***************************************************************************)
categories == <<"DRC", "RRC", "TCC", "RET", "RECOVERY", "REFUND">>

flag_map(cat) ==
    CASE cat = "REFUND" -> "CR"
      [] cat = "RECOVERY" -> "DRC"
      [] OTHER -> cat

EmptyDict == [k \in {} |-> ""]

\* pick_source: the first of the cbs, switch and npci legs that is present
pick_source(rec) ==
    IF rec.cbs # Absent THEN rec.cbs[1]
    ELSE IF rec.switch # Absent THEN rec.switch[1]
    ELSE IF rec.npci # Absent THEN rec.npci[1]
    ELSE EmptyDict

SettlementDifference == {"PARTIAL_MATCH", "ORPHAN", "MISMATCH"}

\* the conditions under which a record gets a row in the file of cat
\* (lines 661, 689, 717, 751); no issuer action is on file
EmitsRow(cat, rec) ==
    LET rc == Get(pick_source(rec), "rc", "")
    IN CASE cat = "TCC" -> rc # "" /\ StartsWithRB(rc)
         [] cat \in {"DRC", "RRC", "RECOVERY", "REFUND"} -> rec.status \in SettlementDifference
         [] cat = "RET" -> Get(rec, "needs_ttum", FALSE) \/ rec.status = "EXCEPTION"
         [] OTHER -> FALSE

\* the row of a category file: RRN and InstructionRefNo are built from the
\* key of the results map
TtumRow(cat, rrn, rec) ==
    [InstructionType |-> cat, InstructionRefNo |-> <<"TTUM", cat, rrn>>, RRN |-> rrn,
     RC |-> Get(pick_source(rec), "rc", "")]

AnnexureRow(cat, rrn, rec) ==
    [Bankadjref |-> <<"BR", cat, rrn>>, Flag |-> flag_map(cat), Shser |-> rrn,
     Shcrd |-> <<"NBIN", rrn>>, reason |-> Get(pick_source(rec), "rc", "")]

\* the entries of recon_results that are dicts and get a row in cat
RowEntries(recon_results, cat) ==
    LET Emits(e) == e.record # Absent /\ EmitsRow(cat, e.record[1])
    IN SelectSeq(recon_results, Emits)

rows_for_cat(recon_results, cat) ==
    LET es == RowEntries(recon_results, cat)
    IN [i \in 1..Len(es) |-> TtumRow(cat, es[i].key, es[i].record[1])]

\* the annexure record reads os.path.basename(path); path is assigned only
\* where a category file is written directly (lines 786, 794), so it is
\* unbound, and the record is dropped by the except clause, in the first
\* category and whenever write_report wrote every file
PathBound(c, has_run_id, reportFails) == c > 1 /\ (~has_run_id \/ reportFails)

RECURSIVE annexure_records(_, _, _, _)
annexure_records(recon_results, c, has_run_id, reportFails) ==
    IF c > Len(categories) THEN <<>>
    ELSE LET es == RowEntries(recon_results, categories[c])
             recs == IF PathBound(c, has_run_id, reportFails)
                     THEN [i \in 1..Len(es) |->
                             AnnexureRow(categories[c], es[i].key, es[i].record[1])]
                     ELSE <<>>
         IN recs \o annexure_records(recon_results, c + 1, has_run_id, reportFails)

generate_ttum_files(recon_results, has_run_id, reportFails) ==
    /\ ttum_out' = Some([files |-> [c \in 1..Len(categories) |->
                                       rows_for_cat(recon_results, categories[c])],
                         annexure |-> annexure_records(recon_results, 1, has_run_id,
                                                       reportFails)])
    /\ UNCHANGED <<clock, rbVars, fmVars, concVars, upiVars, legVars, hangVars, rlVars,
                   ttum_in>>

\* a source leg as the tests build it: its response code and, in some, the
\* RRN found in the source data
Leg(rrn, rc) == IF rrn = "" THEN [k \in {"rc"} |-> rc]
                ELSE [k \in {"rc", "RRN"} |-> IF k = "rc" THEN rc ELSE rrn]

TtumLegs ==
    {Leg("", "00"), Leg("k1", "00"), Leg("r9", "00"), Leg("r9", "RB")}

TtumRecords ==
    {[cbs |-> Some(leg), switch |-> Absent, npci |-> Absent, ntsl |-> Absent,
      status |-> status] : leg \in TtumLegs, status \in {"ORPHAN", "EXCEPTION", "MATCHED"}}
      \cup {[cbs |-> Absent, switch |-> Some(leg), npci |-> Absent, ntsl |-> Absent,
             status |-> "PARTIAL_MATCH"] : leg \in TtumLegs}

\* results maps of one or two records under distinct keys
TtumInputs ==
    {<<Entry("k1", Some(r), <<>>)>> : r \in TtumRecords}
      \cup {<<Entry("k1", Some(r), <<>>), Entry("k2", Some(s), <<>>)>> :
              r \in TtumRecords, s \in TtumRecords}

InitTtumRun ==
    /\ clock = 0
    /\ InitRunStore
    /\ InitForceMatch
    /\ InitWorkers
    /\ InitEngine
    /\ combined_df = <<>>
    /\ InitSettlement
    /\ InitHanging
    /\ InitRateLimit
    /\ ttum_in \in TtumInputs
    /\ ttum_out = Absent

GenerateTtum ==
    \E has_run_id \in BOOLEAN, reportFails \in BOOLEAN :
        generate_ttum_files(ttum_in, has_run_id, reportFails)

NextTtum == GenerateTtum

SpecTtum == InitTtumRun /\ [][NextTtum]_vars

(***************************************************************************)
(* Claims about the TTUM rows                                              *)
(***************************************************************************)
\* the RRN a row of the record under key should carry: the RRN field of the
\* record's source data when there is one, else the key
SourceRrn(key) ==
    Get(pick_source(RecordOf(ttum_in, key)), "RRN", key)

\* C32: every row of the TTUM category files and of Annexure-IV carries the
\* RRN of the source data of its record when that data has an RRN field, and
\* not the key of the record in the results map
C32_RowsCarrySourceRrn ==
    ttum_out # Absent =>
        /\ \A c \in 1..Len(categories) : \A i \in 1..Len(ttum_out[1].files[c]) :
              LET row == ttum_out[1].files[c][i]
              IN row.RRN = SourceRrn(row.InstructionRefNo[3])
        /\ \A i \in 1..Len(ttum_out[1].annexure) :
              LET row == ttum_out[1].annexure[i]
              IN row.Shser = SourceRrn(row.Bankadjref[3])

====
